---------------------------- MODULE Spec2Model ----------------------------
(***************************************************************************)
(* ShipKit core: the schema-migration engine                               *)
(* (packages/core/src/db/migration.rs) over one SQLite database.           *)
(*                                                                         *)
(* Text is modelled as a sequence of tokens.  A file name is a sequence of *)
(* one-character strings; an SQL text is a sequence of statement tokens    *)
(* [k, t] (kind, table), where the kinds "nl" (a line feed) and "comment"  *)
(* (a `--` comment, t its text) execute as nothing.  An Option is a        *)
(* sequence of length 0 (None) or 1 (Some).                                *)
(***************************************************************************)
EXTENDS Integers, Sequences, FiniteSets, TLC

VARIABLES
    migrations,   \* MigrationEngine.migrations : Vec<Migration>
    hasTable,     \* whether table _shipkit_migrations exists in the database
    tracking,     \* rows of _shipkit_migrations
    schema,       \* user tables of the database
    now,          \* the database clock, datetime('now')
    committed,    \* history: versions whose apply transaction committed and
                  \* whose rollback has not, oldest commit first
    last,         \* the last engine call and what it returned
    mutex,        \* AppState.migrations : Mutex<MigrationEngine>, its holder
    threads,      \* the desktop command each thread runs and where it is
    pool,         \* ConnectionPool: the r2d2 pool and its connections
    users,        \* the acquirers of connections and where each one is
    settings,     \* rows of _shipkit_settings
    written,      \* history: the value last set for (namespace, key) and not
                  \* deleted since, as an Option
    ret,          \* the last settings or theme call and what it returned
    theme,        \* the ThemeEngine, an Option: None before ThemeEngine::new
    walk,         \* where each unserialized apply_pending is in the registry
    rwlock,       \* AppState.theme_engine : RwLock<ThemeEngine>, its writer
    setters       \* the set_theme call each thread runs and where it is

engineVars == <<migrations, hasTable, tracking, schema, now, committed, last>>
cmdVars == <<mutex, threads>>
poolVars == <<pool, users>>
storeVars == <<settings, written, ret>>
raceVars == <<walk, rwlock, setters>>
appVars == <<poolVars, storeVars, theme, raceVars>>
vars == <<migrations, hasTable, tracking, schema, now, committed, last,
          mutex, threads, pool, users, settings, written, ret,
          theme, walk, rwlock, setters>>

---------------------------------------------------------------------------
(* Bounds of the model *)

MaxRegistry == 3
MaxClock == 1
MaxThreads == 2
MaxUsers == 2
MaxPoolSize == 2

---------------------------------------------------------------------------
(* Option<T> *)

None == <<>>
Some(x) == <<x>>
IsSome(o) == Len(o) > 0
Unwrap(o) == o[1]

---------------------------------------------------------------------------
(* SQL texts and their execution by SQLite *)

Tok(k, t) == [k |-> k, t |-> t]
Create(t) == Tok("create", t)            \* CREATE TABLE t (...);
CreateIfNotExists(t) == Tok("create_ine", t) \* CREATE TABLE IF NOT EXISTS t (...);
Drop(t) == Tok("drop", t)                \* DROP TABLE t;
DropIfExists(t) == Tok("drop_ine", t)    \* DROP TABLE IF EXISTS t;
Invalid == Tok("invalid", "")            \* THIS IS NOT VALID SQL;
NL == Tok("nl", "")                      \* "\n"
DownMarker == Tok("comment", "-- DOWN")  \* the text `-- DOWN`

\* One statement against the user tables: [ok, schema].
ExecStatement(tok, tables) ==
    CASE tok.k = "create" ->
            IF tok.t \in tables THEN [ok |-> FALSE, schema |-> tables]
            ELSE [ok |-> TRUE, schema |-> tables \cup {tok.t}]
      [] tok.k = "create_ine" -> [ok |-> TRUE, schema |-> tables \cup {tok.t}]
      [] tok.k = "drop" ->
            IF tok.t \in tables THEN [ok |-> TRUE, schema |-> tables \ {tok.t}]
            ELSE [ok |-> FALSE, schema |-> tables]
      [] tok.k = "drop_ine" -> [ok |-> TRUE, schema |-> tables \ {tok.t}]
      [] tok.k = "invalid" -> [ok |-> FALSE, schema |-> tables]
      [] OTHER -> [ok |-> TRUE, schema |-> tables]

\* Connection::execute_batch: the statements in order, stopping at the
\* first that fails; the statements before it have taken effect.
RECURSIVE ExecBatch(_, _)
ExecBatch(sql, tables) ==
    IF sql = <<>> THEN [ok |-> TRUE, schema |-> tables]
    ELSE LET r == ExecStatement(Head(sql), tables)
         IN  IF r.ok THEN ExecBatch(Tail(sql), r.schema) ELSE r

\* MigrationEngine::checksum: the SHA-256 digest of the text's bytes, taken
\* as collision-free: equal digests exactly for equal texts.
Checksum(sql) == [alg |-> "sha256", of |-> sql]

---------------------------------------------------------------------------
(* The registry *)

Migration(v, n, up, down) ==
    [version |-> v, name |-> n, up_sql |-> up, down_sql |-> down]

\* Vec::sort_by_key(|m| m.version): a stable sort.
RECURSIVE InsertByVersion(_, _)
InsertByVersion(s, m) ==
    IF s = <<>> THEN <<m>>
    ELSE IF s[Len(s)].version <= m.version THEN Append(s, m)
    ELSE Append(InsertByVersion(SubSeq(s, 1, Len(s) - 1), m), s[Len(s)])
\* Mutant: the registry is left in the order of the pushes.
SortByVersion_Unsorted(s) == s

RECURSIVE SortByVersion(_)
SortByVersion(s) ==
    IF s = <<>> THEN <<>>
    ELSE InsertByVersion(SortByVersion(SubSeq(s, 1, Len(s) - 1)), s[Len(s)])


---------------------------------------------------------------------------
(* The tracking table _shipkit_migrations *)

Row(v, n, c, at) == [version |-> v, name |-> n, checksum |-> c, applied_at |-> at]

Versions(rows) == {r.version : r \in rows}
RowOf(rows, v) == CHOOSE r \in rows : r.version = v

\* INSERT INTO _shipkit_migrations (version, name, checksum): version is the
\* PRIMARY KEY, applied_at defaults to datetime('now').  [ok, rows].
\* Mutant: INSERT OR REPLACE, the record of the version is overwritten.
InsertRow_Replace(rows, v, n, c, clock) ==
    [ok |-> TRUE, rows |-> {r \in rows : r.version # v} \cup {Row(v, n, c, clock)}]
\* Mutant: version is not a key, the INSERT always adds a record.
InsertRow_NoKey(rows, v, n, c, clock) ==
    [ok |-> TRUE, rows |-> rows \cup {Row(v, n, c, clock)}]

InsertRow(rows, v, n, c, clock) ==
    IF v \in Versions(rows) THEN [ok |-> FALSE, rows |-> rows]
    ELSE [ok |-> TRUE, rows |-> rows \cup {Row(v, n, c, clock)}]
\* Mutant: the DELETE removes no row.
DeleteRow_None(rows, v) == rows

\* Mutant: the DELETE has no WHERE clause.
DeleteRow_All(rows, v) == {}

\* DELETE FROM _shipkit_migrations WHERE version = ?1
DeleteRow(rows, v) == {r \in rows : r.version # v}

\* Mutant: the table is dropped and created again.
EnsureTrackingTable_Recreate(exists, rows) == {}

\* ensure_tracking_table: CREATE TABLE IF NOT EXISTS.  The rows of the
\* table after it: those of the existing table, or none in a new one.
EnsureTrackingTable(exists, rows) == IF exists THEN rows ELSE {}

\* Mutant: the query selects no row.
GetApplied_NoRows(rows) == [v \in {} |-> Checksum(<<>>)]

\* get_applied: HashMap version -> checksum
GetApplied(rows) == [v \in Versions(rows) |-> RowOf(rows, v).checksum]

\* applied.keys().max()
RECURSIVE SetMax(_)
SetMax(S) ==
    LET x == CHOOSE y \in S : TRUE
    IN  IF S = {x} THEN x
        ELSE LET m == SetMax(S \ {x}) IN IF x > m THEN x ELSE m

\* Mutant: max().copied().unwrap_or(0) in place of the early return.
LastVersion_OrZero(applied) ==
    IF DOMAIN applied = {} THEN Some(0) ELSE Some(SetMax(DOMAIN applied))

\* Mutant: the lowest applied version is taken.
LastVersion_Lowest(applied) ==
    IF DOMAIN applied = {} THEN None
    ELSE Some(CHOOSE v \in DOMAIN applied : \A w \in DOMAIN applied : v <= w)

\* applied.keys().max().copied()
LastVersion(applied) ==
    IF DOMAIN applied = {} THEN None ELSE Some(SetMax(DOMAIN applied))

\* Mutant: with no match, the registered migration of the highest version
\* below v.
FindMigration_Nearest(reg, v) ==
    LET hits == {i \in 1..Len(reg) : reg[i].version = v}
        below == {i \in 1..Len(reg) : reg[i].version < v}
    IN  IF hits # {} THEN Some(CHOOSE i \in hits : \A j \in hits : i <= j)
        ELSE IF below = {} THEN None
        ELSE Some(CHOOSE i \in below :
                     \A j \in below : reg[j].version < reg[i].version
                                        \/ (reg[j].version = reg[i].version /\ i <= j))

\* self.migrations.iter().find(|m| m.version == v): the first match, as an
\* Option of its index.
FindMigration(reg, v) ==
    LET hits == {i \in 1..Len(reg) : reg[i].version = v}
    IN  IF hits = {} THEN None
        ELSE Some(CHOOSE i \in hits : \A j \in hits : i <= j)

---------------------------------------------------------------------------
(* status() *)

MigrationStatus(v, n, a, at) ==
    [version |-> v, name |-> n, applied |-> a, applied_at |-> at]

StatusOf(reg, rows) ==
    LET applied == [v \in Versions(rows) |-> RowOf(rows, v).applied_at]
    IN  [i \in 1..Len(reg) |->
            MigrationStatus(reg[i].version, reg[i].name,
                            reg[i].version \in DOMAIN applied,
                            IF reg[i].version \in DOMAIN applied
                            THEN Some(applied[reg[i].version]) ELSE None)]

---------------------------------------------------------------------------
(* What a call returned: res is "ok", "none" (Ok(None)) or "err"; err is   *)
(* the kind of error, ver and name the migration the error or the rollback *)
(* names; statuses the returned Vec<MigrationStatus>; executed the SQL     *)
(* texts the call ran, in order, as <<version, "up" | "down">>.            *)

Outcome(op, res, err, ver, name, statuses, executed) ==
    [op |-> op, res |-> res, err |-> err, ver |-> ver, name |-> name,
     statuses |-> statuses, executed |-> executed]

Quiet(op) == Outcome(op, "ok", "", None, None, <<>>, <<>>)

---------------------------------------------------------------------------
(* apply_pending() *)

\* Mutant: an applied version is skipped without verification.
ChecksumMatches_Skipped(existing, m) == TRUE

\* Lines 114-123: an applied version is verified against the registry.
ChecksumMatches(existing, m) == existing = Checksum(m.up_sql)

\* Mutant: no transaction around the batch, so the statements that ran
\* before the failing one stay.
ApplyOne_PartialPersists(m, db, clock) ==
    LET r == ExecBatch(m.up_sql, db.schema)
        ins == InsertRow(db.rows, m.version, m.name, Checksum(m.up_sql), clock)
    IN  IF ~r.ok THEN [end |-> "failed", schema |-> r.schema, rows |-> db.rows]
        ELSE IF ~ins.ok
             THEN [end |-> "database", schema |-> r.schema, rows |-> db.rows]
        ELSE [end |-> "committed", schema |-> r.schema, rows |-> ins.rows]

\* Mutant: the record is written outside the transaction, so it stays
\* when execute_batch fails.
ApplyOne_RecordOutsideTx(m, db, clock) ==
    LET r == ExecBatch(m.up_sql, db.schema)
        ins == InsertRow(db.rows, m.version, m.name, Checksum(m.up_sql), clock)
    IN  IF ~ins.ok THEN [end |-> "database", schema |-> db.schema, rows |-> db.rows]
        ELSE IF ~r.ok THEN [end |-> "failed", schema |-> db.schema, rows |-> ins.rows]
        ELSE [end |-> "committed", schema |-> r.schema, rows |-> ins.rows]

\* Lines 125-146: one pending migration in its own transaction.  The
\* result is the database after it and how it ended: "committed",
\* "failed" (execute_batch failed) or "database" (the INSERT failed);
\* a transaction that does not commit is rolled back on drop.
ApplyOne(m, db, clock) ==
    LET r == ExecBatch(m.up_sql, db.schema)
        ins == InsertRow(db.rows, m.version, m.name, Checksum(m.up_sql), clock)
    IN  IF ~r.ok THEN [end |-> "failed", schema |-> db.schema, rows |-> db.rows]
        ELSE IF ~ins.ok
             THEN [end |-> "database", schema |-> db.schema, rows |-> db.rows]
        ELSE [end |-> "committed", schema |-> r.schema, rows |-> ins.rows]

\* Lines 113-147: the walk over the registry from index i, with `applied`
\* read once before it.  acc = [schema, rows, executed, commits].
RECURSIVE ApplyLoop(_, _, _, _, _)
ApplyLoop(reg, i, applied, acc, clock) ==
    IF i > Len(reg) THEN [end |-> "done", at |-> i, acc |-> acc]
    ELSE LET m == reg[i] IN
         IF m.version \in DOMAIN applied
         THEN IF ChecksumMatches(applied[m.version], m)
              THEN ApplyLoop(reg, i + 1, applied, acc, clock)
              ELSE [end |-> "checksum", at |-> i, acc |-> acc]
         ELSE LET t == ApplyOne(m, [schema |-> acc.schema, rows |-> acc.rows], clock)
                  ran == Append(acc.executed, <<m.version, "up">>)
              IN  IF t.end = "committed"
                  THEN ApplyLoop(reg, i + 1, applied,
                                 [schema |-> t.schema, rows |-> t.rows,
                                  executed |-> ran,
                                  commits |-> Append(acc.commits, m.version)],
                                 clock)
                  ELSE [end |-> t.end, at |-> i,
                        acc |-> [schema |-> t.schema, rows |-> t.rows,
                                 executed |-> ran, commits |-> acc.commits]]

\* Mutant: a record of a version that is not registered stops the call.
ApplyWith_RejectUnknown(applied, table) ==
    LET run == ApplyLoop(migrations, 1, applied,
                         [schema |-> schema, rows |-> table,
                          executed |-> <<>>, commits |-> <<>>], now)
        unknown == \E v \in DOMAIN applied :
                       \A i \in 1..Len(migrations) : migrations[i].version # v
    IN  /\ hasTable' = TRUE
        /\ schema' = IF unknown THEN schema ELSE run.acc.schema
        /\ tracking' = IF unknown THEN table ELSE run.acc.rows
        /\ committed' = IF unknown THEN committed ELSE committed \o run.acc.commits
        /\ last' = IF unknown
                   THEN Outcome("apply_pending", "err", "unregistered",
                                None, None, <<>>, <<>>)
                   ELSE IF run.end = "done"
                   THEN Outcome("apply_pending", "ok", "", None, None,
                                StatusOf(migrations, run.acc.rows), run.acc.executed)
                   ELSE Outcome("apply_pending", "err", run.end,
                                Some(migrations[run.at].version),
                                Some(migrations[run.at].name),
                                <<>>, run.acc.executed)
        /\ UNCHANGED <<migrations, now>>

\* Mutant: a pending migration is run only if its version is above the
\* highest applied one.
ApplyWith_OnlyAbove(applied, table) ==
    LET reg == SelectSeq(migrations,
                   LAMBDA m : \/ m.version \in DOMAIN applied
                              \/ \A v \in DOMAIN applied : m.version > v)
        run == ApplyLoop(reg, 1, applied,
                         [schema |-> schema, rows |-> table,
                          executed |-> <<>>, commits |-> <<>>], now)
    IN  /\ hasTable' = TRUE
        /\ schema' = run.acc.schema
        /\ tracking' = run.acc.rows
        /\ committed' = committed \o run.acc.commits
        /\ last' = IF run.end = "done"
                   THEN Outcome("apply_pending", "ok", "", None, None,
                                StatusOf(migrations, run.acc.rows), run.acc.executed)
                   ELSE Outcome("apply_pending", "err", run.end,
                                Some(reg[run.at].version),
                                Some(reg[run.at].name),
                                <<>>, run.acc.executed)
        /\ UNCHANGED <<migrations, now>>

\* Lines 113-149, with `applied` as get_applied returned it and the rows
\* of the tracking table as they are.
ApplyWith(applied, table) ==
    LET run == ApplyLoop(migrations, 1, applied,
                         [schema |-> schema, rows |-> table,
                          executed |-> <<>>, commits |-> <<>>], now)
    IN  /\ hasTable' = TRUE
        /\ schema' = run.acc.schema
        /\ tracking' = run.acc.rows
        /\ committed' = committed \o run.acc.commits
        /\ last' = IF run.end = "done"
                   THEN Outcome("apply_pending", "ok", "", None, None,
                                StatusOf(migrations, run.acc.rows), run.acc.executed)
                   ELSE Outcome("apply_pending", "err", run.end,
                                Some(migrations[run.at].version),
                                Some(migrations[run.at].name),
                                <<>>, run.acc.executed)
        /\ UNCHANGED <<migrations, now>>

ApplyPending ==
    LET table == EnsureTrackingTable(hasTable, tracking)
    IN  /\ ApplyWith(GetApplied(table), table)
        /\ UNCHANGED <<cmdVars, appVars>>

---------------------------------------------------------------------------
(* rollback_last() *)

Without(s, v) == SelectSeq(s, LAMBDA x : x # v)

\* Mutant: a missing down_sql is taken as the empty script.
DownSql_OrEmpty(m) == IF IsSome(m.down_sql) THEN m.down_sql ELSE Some(<<>>)
\* Mutant: the reverse script of the registry is not the one executed.
DownSql_Skipped(m) == IF IsSome(m.down_sql) THEN Some(<<>>) ELSE None

\* migration.down_sql.as_ref(): the reverse script, if the migration has one.
DownSql(m) == m.down_sql

\* Lines 158-194, with `applied` as get_applied returned it and the rows
\* of the tracking table as they are.
RollbackWith(applied, table) ==
    LET lv == LastVersion(applied)
        at == IF IsSome(lv) THEN FindMigration(migrations, Unwrap(lv)) ELSE None
        m == migrations[Unwrap(at)]
        r == ExecBatch(Unwrap(DownSql(m)), schema)
        ran == << <<m.version, "down">> >>
    IN  /\ hasTable' = TRUE
        /\ UNCHANGED <<migrations, now>>
        /\ IF ~IsSome(lv)
           THEN /\ last' = Outcome("rollback_last", "none", "", None, None, <<>>, <<>>)
                /\ tracking' = table
                /\ UNCHANGED <<schema, committed>>
           ELSE IF ~IsSome(at)
           THEN /\ last' = Outcome("rollback_last", "err", "unregistered",
                                   lv, None, <<>>, <<>>)
                /\ tracking' = table
                /\ UNCHANGED <<schema, committed>>
           ELSE IF ~IsSome(DownSql(m))
           THEN /\ last' = Outcome("rollback_last", "err", "nodown",
                                   Some(m.version), Some(m.name), <<>>, <<>>)
                /\ tracking' = table
                /\ UNCHANGED <<schema, committed>>
           ELSE IF ~r.ok
           THEN /\ last' = Outcome("rollback_last", "err", "database",
                                   None, None, <<>>, ran)
                /\ tracking' = table
                /\ UNCHANGED <<schema, committed>>
           ELSE /\ schema' = r.schema
                /\ tracking' = DeleteRow(table, Unwrap(lv))
                /\ committed' = Without(committed, Unwrap(lv))
                /\ last' = Outcome("rollback_last", "ok", "",
                                   Some(m.version), Some(m.name),
                                   <<MigrationStatus(m.version, m.name, FALSE, None)>>,
                                   ran)

RollbackLast ==
    LET table == EnsureTrackingTable(hasTable, tracking)
    IN  /\ RollbackWith(GetApplied(table), table)
        /\ UNCHANGED <<cmdVars, appVars>>

---------------------------------------------------------------------------
(* status() as a call *)

\* Lines 200-217, with the rows the SELECT returned.
StatusWith(rows, table) ==
    /\ hasTable' = TRUE
    /\ tracking' = table
    /\ last' = Outcome("status", "ok", "", None, None,
                       StatusOf(migrations, rows), <<>>)
    /\ UNCHANGED <<migrations, schema, now, committed>>

Status ==
    LET table == EnsureTrackingTable(hasTable, tracking)
    IN  /\ StatusWith(table, table)
        /\ UNCHANGED <<cmdVars, appVars>>

---------------------------------------------------------------------------
(* register(migration) *)

Str1(a) == <<a>>

\* The migrations a caller registers.
Catalog ==
    { Migration(1, Str1("a"), <<Create("t")>>, Some(<<Drop("t")>>)),
      Migration(1, Str1("a"), <<Create("t"), Invalid>>, None),
      Migration(2, Str1("b"), <<Create("u")>>, None),
      Migration(3, Str1("c"), <<Create("w")>>, Some(<<Drop("w")>>)),
      Migration(3, Str1("d"), <<Create("t")>>, Some(<<Drop("u")>>)) }

Push(reg, m) == Append(reg, m)
\* Mutant: the new definition replaces those of its version.
RegisterInto_Replace(reg, m) ==
    LET Other(x) == x.version # m.version
    IN  SortByVersion(Push(SelectSeq(reg, Other), m))

RegisterInto(reg, m) == SortByVersion(Push(reg, m))

Register(m) ==
    /\ Len(migrations) < MaxRegistry
    /\ migrations' = RegisterInto(migrations, m)
    /\ last' = Quiet("register")
    /\ UNCHANGED <<hasTable, tracking, schema, now, committed>>
    /\ UNCHANGED <<cmdVars, appVars>>

---------------------------------------------------------------------------
(* register_from_dir(dir) *)

File(fname, content) == [name |-> fname, content |-> content]

\* The characters of file names, in byte order.
CharOrder ==
    <<"+", "-", ".", "0", "1", "2", "3", "4", "5", "6", "7", "8", "9", "_",
      "a", "b", "c", "d", "l", "q", "s", "x", "y">>
Code(c) == CHOOSE i \in 1..Len(CharOrder) : CharOrder[i] = c
Digits == {"0", "1", "2", "3", "4", "5", "6", "7", "8", "9"}
DigitValue(c) == Code(c) - Code("0")

\* OsString's Ord: bytewise, a proper prefix first.
RECURSIVE NameLess(_, _)
NameLess(a, b) ==
    IF b = <<>> THEN FALSE
    ELSE IF a = <<>> THEN TRUE
    ELSE IF Head(a) = Head(b) THEN NameLess(Tail(a), Tail(b))
    ELSE Code(Head(a)) < Code(Head(b))

SqlSuffix == <<".", "s", "q", "l">>

\* str::strip_suffix
StripSuffix(s, suf) ==
    IF Len(s) >= Len(suf) /\ SubSeq(s, Len(s) - Len(suf) + 1, Len(s)) = suf
    THEN Some(SubSeq(s, 1, Len(s) - Len(suf)))
    ELSE None

\* Path::extension() == "sql": a name ending in .sql with a stem before it.
HasSqlExtension(fname) ==
    /\ IsSome(StripSuffix(fname, SqlSuffix))
    /\ Unwrap(StripSuffix(fname, SqlSuffix)) # <<>>

\* str::split_once(ch): around the first occurrence of ch.
SplitOnce(s, ch) ==
    LET hits == {i \in 1..Len(s) : s[i] = ch}
        i == CHOOSE k \in hits : \A j \in hits : k <= j
    IN  IF hits = {} THEN None
        ELSE Some(<<SubSeq(s, 1, i - 1), SubSeq(s, i + 1, Len(s))>>)

RECURSIVE DecimalValue(_)
DecimalValue(ds) ==
    IF ds = <<>> THEN 0
    ELSE DecimalValue(SubSeq(ds, 1, Len(ds) - 1)) * 10 + DigitValue(ds[Len(ds)])

\* str::parse::<i64>(): an optional sign, then one or more decimal digits.
ParseI64(s) ==
    LET signed == s # <<>> /\ s[1] \in {"+", "-"}
        ds == IF signed THEN Tail(s) ELSE s
    IN  IF ds = <<>> \/ \E i \in 1..Len(ds) : ds[i] \notin Digits THEN None
        ELSE IF signed /\ s[1] = "-" THEN Some(0 - DecimalValue(ds))
        ELSE Some(DecimalValue(ds))

\* content.find("\n-- DOWN\n"): the first index of the marker, as an Option.
MarkerText == <<NL, DownMarker, NL>>
FindMarker(content) ==
    LET hits == {i \in 1..(Len(content) - Len(MarkerText) + 1) :
                    SubSeq(content, i, i + Len(MarkerText) - 1) = MarkerText}
    IN  IF hits = {} THEN None
        ELSE Some(CHOOSE i \in hits : \A j \in hits : i <= j)

\* Lines 86-94: <<up_sql, down_sql>> of a file's content.
SplitContent(content) ==
    LET idx == FindMarker(content)
    IN  IF IsSome(idx)
        THEN <<SubSeq(content, 1, Unwrap(idx) - 1),
               Some(SubSeq(content, Unwrap(idx) + Len(MarkerText), Len(content)))>>
        ELSE <<content, None>>

\* Lines 57-65: the .sql entries of the directory, sorted by file name.
RECURSIVE SortedEntries(_)
SortedEntries(files) ==
    IF files = {} THEN <<>>
    ELSE LET f == CHOOSE x \in files : \A y \in files \ {x} : NameLess(x.name, y.name)
         IN  <<f>> \o SortedEntries(files \ {f})

Entries(dir) == SortedEntries({f \in dir : HasSqlExtension(f.name)})

\* Lines 67-102: the loop over the entries from index i; reg is the
\* registry so far.  [err, reg]: err is "" when the loop ran to its end.
RECURSIVE LoadLoop(_, _, _)
LoadLoop(entries, i, reg) ==
    IF i > Len(entries) THEN [err |-> "", reg |-> reg]
    ELSE LET f == entries[i]
             stem == StripSuffix(f.name, SqlSuffix)
             parts == IF IsSome(stem) THEN SplitOnce(Unwrap(stem), "_") ELSE None
             version == IF IsSome(parts) THEN ParseI64(Unwrap(parts)[1]) ELSE None
             sql == SplitContent(f.content)
         IN  IF ~IsSome(parts) THEN [err |-> "filename", reg |-> reg]
             ELSE IF ~IsSome(version) THEN [err |-> "version_number", reg |-> reg]
             ELSE LoadLoop(entries, i + 1,
                           Push(reg, Migration(Unwrap(version), Unwrap(parts)[2],
                                               sql[1], sql[2])))

\* The directories a caller loads.
Dirs ==
    { { File(<<"0", "0", "2", "_", "b", ".", "s", "q", "l">>,
             <<Create("u"), NL, DownMarker, NL, Drop("u")>>) },
      { File(<<"1", "_", "a", ".", "s", "q", "l">>, <<Create("t")>>),
        File(<<"x", ".", "s", "q", "l">>, <<Create("w")>>) } }

RegisterFromDir(dir) ==
    LET entries == Entries(dir)
        run == LoadLoop(entries, 1, migrations)
    IN  /\ Len(migrations) + Len(entries) <= MaxRegistry
        /\ migrations' = IF run.err = "" THEN SortByVersion(run.reg) ELSE run.reg
        /\ last' = IF run.err = "" THEN Quiet("register_from_dir")
                   ELSE Outcome("register_from_dir", "err", run.err,
                                None, None, <<>>, <<>>)
        /\ UNCHANGED <<hasTable, tracking, schema, now, committed>>
        /\ UNCHANGED <<cmdVars, appVars>>

---------------------------------------------------------------------------
(* MigrationEngine::new on the same pool: a fresh, empty registry over the *)
(* database as it is.                                                      *)

NewEngine ==
    /\ migrations # <<>>
    /\ migrations' = <<>>
    /\ last' = Quiet("new")
    /\ UNCHANGED <<hasTable, tracking, schema, now, committed>>
    /\ UNCHANGED <<cmdVars, appVars>>

\* Time passes on the database clock.
Tick ==
    /\ now < MaxClock
    /\ now' = now + 1
    /\ UNCHANGED <<migrations, hasTable, tracking, schema, committed, last>>
    /\ UNCHANGED <<cmdVars, appVars>>

---------------------------------------------------------------------------
(* The desktop command layer (apps/desktop/src-tauri/src/commands/         *)
(* database.rs): each command locks AppState.migrations and makes one      *)
(* engine call under the guard.  The engine call is two steps here: its    *)
(* read of the tracking table (ensure_tracking_table and the SELECT), then *)
(* the rest of it on what was read, up to the return that drops the guard. *)

Threads == 1..MaxThreads
Commands == {"migration_status", "apply_migrations", "rollback_migration"}

\* pc: "idle", "waiting" (in lock()), "locked" (holds the guard), "read"
\* (the engine has read the tracking table; snap is the rows it read).
Thread(pc, cmd, snap) == [pc |-> pc, cmd |-> cmd, snap |-> snap]
Idle == Thread("idle", "", {})

\* Mutant: lock() returns at once, whoever holds the mutex.
MutexAvailable_NoLock(holder) == TRUE

\* Mutex::lock returns when no guard is alive.
MutexAvailable(holder) == holder = None

\* The front end invokes a command on a thread of the pool.
Invoke(t, c) ==
    /\ threads[t].pc = "idle"
    /\ threads' = [threads EXCEPT ![t] = Thread("waiting", c, {})]
    /\ UNCHANGED <<migrations, hasTable, tracking, schema, now, committed,
                   last, mutex>>
    /\ UNCHANGED appVars

\* state.migrations.lock()
Lock(t) ==
    /\ threads[t].pc = "waiting"
    /\ MutexAvailable(mutex)
    /\ mutex' = Some(t)
    /\ threads' = [threads EXCEPT ![t].pc = "locked"]
    /\ UNCHANGED <<migrations, hasTable, tracking, schema, now, committed, last>>
    /\ UNCHANGED appVars

\* The engine call begins: ensure_tracking_table, then the SELECT.
CmdRead(t) ==
    /\ threads[t].pc = "locked"
    /\ hasTable' = TRUE
    /\ tracking' = EnsureTrackingTable(hasTable, tracking)
    /\ threads' = [threads EXCEPT ![t].pc = "read", ![t].snap = tracking']
    /\ UNCHANGED <<migrations, schema, now, committed, last, mutex>>
    /\ UNCHANGED appVars

\* The rest of the engine call on what was read; the command returns and
\* the guard is dropped.
CmdReturn(t) ==
    /\ threads[t].pc = "read"
    /\ \/ /\ threads[t].cmd = "migration_status"
          /\ StatusWith(threads[t].snap, tracking)
       \/ /\ threads[t].cmd = "apply_migrations"
          /\ ApplyWith(GetApplied(threads[t].snap), tracking)
       \/ /\ threads[t].cmd = "rollback_migration"
          /\ RollbackWith(GetApplied(threads[t].snap), tracking)
    /\ mutex' = None
    /\ threads' = [threads EXCEPT ![t] = Idle]
    /\ UNCHANGED appVars

\* An engine of its own over the same database is called with no mutex
\* around it: status, apply_pending or rollback_last begins.
Call(t, c) ==
    /\ threads[t].pc = "idle"
    /\ threads' = [threads EXCEPT ![t] = Thread("locked", c, {})]
    /\ UNCHANGED <<migrations, hasTable, tracking, schema, now, committed,
                   last, mutex>>
    /\ UNCHANGED appVars

---------------------------------------------------------------------------
(* ConnectionPool (packages/core/src/db/pool.rs): an r2d2 pool of SQLite   *)
(* connections.  A pool holds max_size physical connections; get() hands   *)
(* out an idle one and the PooledConnection puts it back when it is        *)
(* dropped.  An in-memory connection has a database of its own; the        *)
(* connections of a file-backed pool share the file.                       *)

\* A physical connection: holder is the user it is checked out to (0 when
\* idle), fk its PRAGMA foreign_keys, tables its own in-memory database,
\* reconfigured whether a holder has changed its pragmas since it was opened.
Conn(holder, fk, tables, reconfigured) ==
    [holder |-> holder, fk |-> fk, tables |-> tables, reconfigured |-> reconfigured]

\* Mutant: the pool is built without the connection customizer; SQLite
\* opens a connection with foreign_keys off.
OnAcquire_NoCustomizer(c) == c

\* PragmaCustomizer::on_acquire, run by r2d2 on each connection it opens:
\* PRAGMA journal_mode=WAL; PRAGMA foreign_keys=ON.
OnAcquire(c) == [c EXCEPT !.fk = TRUE]

\* SqliteConnectionManager::connect followed by the customizer.
Connect == OnAcquire(Conn(0, FALSE, {}, FALSE))

\* Pool::builder()...build(manager): min_idle defaults to max_size, so the
\* pool starts with max_size idle connections.
BuildPool(kind, size) ==
    [kind |-> kind, max_size |-> size, conns |-> [i \in 1..size |-> Connect],
     file |-> {}, created |-> {}]

\* ConnectionPool::in_memory(): max_size(1).
InMemory == BuildPool("memory", 1)
\* ConnectionPool::new(path): r2d2's default max_size, here MaxPoolSize.
NewPool == BuildPool("file", MaxPoolSize)

IdleConns(p) == {c \in 1..Len(p.conns) : p.conns[c].holder = 0}
CheckedOut(p) == {c \in 1..Len(p.conns) : p.conns[c].holder # 0}

\* The tables a statement on connection c sees.
TablesOf(p, c) == IF p.kind = "memory" THEN p.conns[c].tables ELSE p.file

\* pool.get(): idle connection c is checked out to user u.
CheckOut(p, c, u) == [p EXCEPT !.conns[c].holder = u]

\* Mutant: the connection is not put back (mem::forget of the guard).
PutBack_Leak(p, c) == p

\* Drop for PooledConnection: the connection goes back to the idle list.
PutBack(p, c) == [p EXCEPT !.conns[c].holder = 0]

\* The operations that acquire connections, each as the number of scoped
\* acquisitions it makes one after the other: status (ensure_tracking_table,
\* SELECT), rollback_last (ensure, get_applied, transaction), apply_pending
\* with one pending migration (ensure, get_applied, transaction, status),
\* and the settings store operations (one each).
Scopes ==
    [status |-> 2, rollback_last |-> 3, apply_pending |-> 5, settings |-> 1]
PoolOps == DOMAIN Scopes

\* pc: "idle", "running" (inside an operation, holding nothing), "holding"
\* (inside a scope, conn checked out); left: the scopes still to run.
User(pc, op, left, conn) == [pc |-> pc, op |-> op, left |-> left, conn |-> conn]
IdleUser == User("idle", "", 0, 0)
Users == 1..MaxUsers

\* The statements a holder runs on its connection.
Statements == {"create_t", "fk_off"}

\* A caller starts an operation.
Begin(u, op) ==
    /\ users[u].pc = "idle"
    /\ users' = [users EXCEPT ![u] = User("running", op, Scopes[op], 0)]
    /\ UNCHANGED <<engineVars, cmdVars, raceVars, pool, storeVars, theme>>

\* let conn = self.pool.get()?  with an idle connection.
Get(u) ==
    /\ users[u].pc = "running"
    /\ \E c \in IdleConns(pool) :
          /\ pool' = CheckOut(pool, c, u)
          /\ users' = [users EXCEPT ![u].pc = "holding", ![u].conn = c]
    /\ UNCHANGED <<engineVars, cmdVars, raceVars, storeVars, theme>>

\* let conn = self.pool.get()?  with every connection checked out: get
\* times out and `?` returns the error from the operation.
GetTimeout(u) ==
    /\ users[u].pc = "running"
    /\ IdleConns(pool) = {}
    /\ users' = [users EXCEPT ![u] = IdleUser]
    /\ UNCHANGED <<engineVars, cmdVars, raceVars, pool, storeVars, theme>>

\* A statement on the held connection succeeds.
Exec(u, stmt) ==
    LET c == users[u].conn
        t == "t"
    IN  /\ users[u].pc = "holding"
        /\ pool' =
              IF stmt = "fk_off"
              THEN [pool EXCEPT !.conns[c].fk = FALSE,
                                !.conns[c].reconfigured = TRUE]
              ELSE IF pool.kind = "memory"
              THEN [pool EXCEPT !.conns[c].tables = @ \cup {t},
                                !.created = @ \cup {t}]
              ELSE [pool EXCEPT !.file = @ \cup {t}, !.created = @ \cup {t}]
        /\ UNCHANGED <<engineVars, cmdVars, raceVars, users, storeVars, theme>>

\* A statement on the held connection fails: `?` returns the error, the
\* guard is dropped on the way out.
Fail(u) ==
    /\ users[u].pc = "holding"
    /\ pool' = PutBack(pool, users[u].conn)
    /\ users' = [users EXCEPT ![u] = IdleUser]
    /\ UNCHANGED <<engineVars, cmdVars, raceVars, storeVars, theme>>
\* Mutant: the guard of a scope is still alive when the next scope of the
\* operation begins.
EndScope_GuardKept(u) ==
    /\ users[u].pc = "holding"
    /\ pool' = IF users[u].left = 1 THEN PutBack(pool, users[u].conn) ELSE pool
    /\ users' = [users EXCEPT ![u] =
                    IF users[u].left = 1 THEN IdleUser
                    ELSE User("running", users[u].op, users[u].left - 1, 0)]
    /\ UNCHANGED <<engineVars, cmdVars, raceVars, storeVars, theme>>

\* The scope ends: the guard is dropped; after the last scope the
\* operation returns Ok.
EndScope(u) ==
    /\ users[u].pc = "holding"
    /\ pool' = PutBack(pool, users[u].conn)
    /\ users' = [users EXCEPT ![u] =
                    IF users[u].left = 1 THEN IdleUser
                    ELSE User("running", users[u].op, users[u].left - 1, 0)]
    /\ UNCHANGED <<engineVars, cmdVars, raceVars, storeVars, theme>>

\* r2d2's reaper (Pool::builder() keeps the default idle_timeout and
\* max_lifetime): an idle connection that is too old is closed and a new
\* one is opened in its place.
Reap(c) ==
    /\ c \in IdleConns(pool)
    /\ pool' = [pool EXCEPT !.conns[c] = Connect]
    /\ UNCHANGED <<engineVars, cmdVars, raceVars, users, storeVars, theme>>

---------------------------------------------------------------------------
(* JSON texts, as serde_json writes and reads them.  A text is a sequence  *)
(* of one-character strings; a value is null, a boolean, an integer or a   *)
(* string (a sequence of characters).                                      *)

Quote == "\""
Backslash == "\\"
Tab == "\t"
\* The characters JSON does not allow unescaped in a string: U+0000 to
\* U+001F, here the tab.
ControlChars == {Tab}

JNull == [t |-> "null", v |-> 0]
JBool(b) == [t |-> "bool", v |-> b]
JNum(n) == [t |-> "num", v |-> n]
JStr(s) == [t |-> "str", v |-> s]

NullText == <<"n", "u", "l", "l">>
TrueText == <<"t", "r", "u", "e">>
FalseText == <<"f", "a", "l", "s", "e">>

\* The decimal digits of a natural number.
RECURSIVE Decimal(_)
Decimal(n) ==
    IF n < 10 THEN <<CharOrder[Code("0") + n]>>
    ELSE Decimal(n \div 10) \o <<CharOrder[Code("0") + (n % 10)]>>

\* serde_json's writer: a string's characters with `"`, `\` and control
\* characters escaped.
RECURSIVE EscapeJson(_)
EscapeJson(s) ==
    IF s = <<>> THEN <<>>
    ELSE (CASE Head(s) = Quote -> <<Backslash, Quote>>
            [] Head(s) = Backslash -> <<Backslash, Backslash>>
            [] Head(s) = Tab -> <<Backslash, "t">>
            [] OTHER -> <<Head(s)>>) \o EscapeJson(Tail(s))

\* serde_json::to_string(&value)
ToJson(v) ==
    CASE v.t = "null" -> NullText
      [] v.t = "bool" -> IF v.v THEN TrueText ELSE FalseText
      [] v.t = "num" -> IF v.v < 0 THEN <<"-">> \o Decimal(0 - v.v) ELSE Decimal(v.v)
      [] v.t = "str" -> <<Quote>> \o EscapeJson(v.v) \o <<Quote>>

\* serde_json's reader inside a string, after the opening quote and before
\* the closing one: an Option of the characters.  A control character, a
\* bare quote or an unknown escape is an error.
RECURSIVE UnescapeJson(_)
UnescapeJson(s) ==
    IF s = <<>> THEN Some(<<>>)
    ELSE IF Head(s) \in ControlChars \/ Head(s) = Quote THEN None
    ELSE IF Head(s) = Backslash
         THEN IF Len(s) < 2 \/ s[2] \notin {Quote, Backslash, "t"} THEN None
              ELSE LET rest == UnescapeJson(SubSeq(s, 3, Len(s)))
                       c == IF s[2] = "t" THEN Tab ELSE s[2]
                   IN  IF IsSome(rest) THEN Some(<<c>> \o Unwrap(rest)) ELSE None
    ELSE LET rest == UnescapeJson(Tail(s))
         IN  IF IsSome(rest) THEN Some(<<Head(s)>> \o Unwrap(rest)) ELSE None

\* A JSON integer: an optional minus sign and digits without a leading zero.
IsJsonInt(s) ==
    LET ds == IF s # <<>> /\ s[1] = "-" THEN Tail(s) ELSE s
    IN  /\ ds # <<>>
        /\ \A i \in 1..Len(ds) : ds[i] \in Digits
        /\ Len(ds) > 1 => ds[1] # "0"

\* serde_json::from_str::<Value>(text): an Option, None for a syntax error.
FromJson(text) ==
    IF text = NullText THEN Some(JNull)
    ELSE IF text = TrueText THEN Some(JBool(TRUE))
    ELSE IF text = FalseText THEN Some(JBool(FALSE))
    ELSE IF IsJsonInt(text) THEN Some(JNum(Unwrap(ParseI64(text))))
    ELSE IF Len(text) >= 2 /\ text[1] = Quote /\ text[Len(text)] = Quote
         THEN LET body == UnescapeJson(SubSeq(text, 2, Len(text) - 1))
              IN  IF IsSome(body) THEN Some(JStr(Unwrap(body))) ELSE None
    ELSE None

---------------------------------------------------------------------------
(* SqliteSettingsStore (packages/core/src/settings/store.rs) over the      *)
(* table _shipkit_settings, PRIMARY KEY (namespace, key).                  *)

SettingRow(ns, k, text) == [namespace |-> ns, key |-> k, value |-> text]

\* What a call returned: res is "ok" or the kind of the error; val the
\* value returned.
Ret(op, ns, k, res, val) ==
    [op |-> op, ty |-> "", ns |-> ns, key |-> k, res |-> res, val |-> val]

\* SELECT value ... WHERE namespace = ?1 AND key = ?2
RowsAt(rows, ns, k) == {r \in rows : r.namespace = ns /\ r.key = k}

\* get(namespace, key): [res, val], val an Option<Value>.
StoreGet(rows, ns, k) ==
    IF RowsAt(rows, ns, k) = {} THEN [res |-> "ok", val |-> None]
    ELSE LET text == (CHOOSE r \in RowsAt(rows, ns, k) : TRUE).value
         IN  IF IsSome(FromJson(text)) THEN [res |-> "ok", val |-> FromJson(text)]
             ELSE [res |-> "serialization", val |-> None]

\* Mutant: INSERT OR IGNORE, an existing row stays.
StoreSet_Ignore(rows, ns, k, v) ==
    IF RowsAt(rows, ns, k) # {} THEN rows
    ELSE rows \cup {SettingRow(ns, k, ToJson(v))}

\* set(namespace, key, value): INSERT OR REPLACE of the serialized value.
StoreSet(rows, ns, k, v) ==
    (rows \ RowsAt(rows, ns, k)) \cup {SettingRow(ns, k, ToJson(v))}

\* get_all(namespace): [res, val], val the map key -> Value.
StoreGetAll(rows, ns) ==
    LET mine == {r \in rows : r.namespace = ns}
    IN  IF \E r \in mine : ~IsSome(FromJson(r.value))
        THEN [res |-> "serialization", val |-> <<>>]
        ELSE [res |-> "ok",
              val |-> [k \in {r.key : r \in mine} |->
                          Unwrap(FromJson((CHOOSE r \in mine : r.key = k).value))]]

\* Mutant: the DELETE has no namespace condition.
StoreDelete_AnyNamespace(rows, ns, k) == {r \in rows : r.key # k}

\* delete(namespace, key)
StoreDelete(rows, ns, k) == rows \ RowsAt(rows, ns, k)

\* The namespaces, keys and values callers use.
Namespaces == {"ns1", "ns2"}
Keys == {"name", "count"}
JsonValues ==
    {JNull, JNum(4), JStr(<<"4">>), JStr(<<"h">>), JStr(<<Quote, Tab>>)}

SetSetting(ns, k, v) ==
    /\ settings' = StoreSet(settings, ns, k, v)
    /\ written' = [written EXCEPT ![<<ns, k>>] = Some(v)]
    /\ ret' = Ret("set", ns, k, "ok", None)
    /\ UNCHANGED <<engineVars, cmdVars, raceVars, poolVars, theme>>

DeleteSetting(ns, k) ==
    /\ settings' = StoreDelete(settings, ns, k)
    /\ written' = [written EXCEPT ![<<ns, k>>] = None]
    /\ ret' = Ret("delete", ns, k, "ok", None)
    /\ UNCHANGED <<engineVars, cmdVars, raceVars, poolVars, theme>>

GetSetting(ns, k) ==
    /\ ret' = Ret("get", ns, k, StoreGet(settings, ns, k).res,
                  StoreGet(settings, ns, k).val)
    /\ UNCHANGED <<engineVars, cmdVars, raceVars, poolVars, theme, settings, written>>

GetAllSettings(ns) ==
    /\ ret' = Ret("get_all", ns, "", StoreGetAll(settings, ns).res,
                  StoreGetAll(settings, ns).val)
    /\ UNCHANGED <<engineVars, cmdVars, raceVars, poolVars, theme, settings, written>>

---------------------------------------------------------------------------
(* Types that derive Settings (packages/macros/src/lib.rs).  A type is its *)
(* name, its namespace and its fields; a field is its name, its Rust type  *)
(* and the literal of #[settings(default = ...)], an Option.               *)

LitStr(s) == [lit |-> "str", v |-> s]
LitBool(b) == [lit |-> "bool", v |-> b]
LitInt(n) == [lit |-> "int", v |-> n]

SettingsField(name, ty, default) == [name |-> name, ty |-> ty, default |-> default]
SettingsType(name, namespace, fields) ==
    [name |-> name, namespace |-> namespace, fields |-> fields]

is_option_type(ty) == ty = "Option<String>"

default_for_type(ty) ==
    CASE ty = "String" -> <<Quote, Quote>>
      [] ty = "bool" -> FalseText
      [] ty = "i64" -> <<"0">>
      [] OTHER -> NullText

\* val.replace('\\', "\\\\").replace('"', "\\\""): every other character is
\* copied as it is.
RECURSIVE EscapeLiteral(_)
EscapeLiteral(s) ==
    IF s = <<>> THEN <<>>
    ELSE (CASE Head(s) = Backslash -> <<Backslash, Backslash>>
            [] Head(s) = Quote -> <<Backslash, Quote>>
            [] OTHER -> <<Head(s)>>) \o EscapeLiteral(Tail(s))

\* The JSON text the macro writes for a field's default.
default_json(f) ==
    IF IsSome(f.default)
    THEN LET d == Unwrap(f.default)
         IN  CASE d.lit = "str" -> <<Quote>> \o EscapeLiteral(d.v) \o <<Quote>>
               [] d.lit = "bool" -> IF d.v THEN TrueText ELSE FalseText
               [] d.lit = "int" -> Decimal(d.v)
    ELSE IF is_option_type(f.ty) THEN NullText
    ELSE default_for_type(f.ty)

\* field_defaults(): (name, default as JSON) of every field, in order.
field_defaults(T) ==
    [i \in 1..Len(T.fields) |->
        [name |-> T.fields[i].name, json |-> default_json(T.fields[i])]]

Declares(T, field) ==
    \E i \in 1..Len(T.fields) : field_defaults(T)[i].name = field

\* serde's Serialize of a field: a String is a sequence of characters, an
\* i64 an integer, an Option<String> an Option of a sequence.
ToValue(ty, x) ==
    CASE ty = "String" -> JStr(x)
      [] ty = "i64" -> JNum(x)
      [] ty = "bool" -> JBool(x)
      [] ty = "Option<String>" -> IF IsSome(x) THEN JStr(Unwrap(x)) ELSE JNull

\* serde's Deserialize of a field: an Option, None when the JSON value is
\* not of the field's type.
FromValue(ty, v) ==
    CASE ty = "String" -> IF v.t = "str" THEN Some(v.v) ELSE None
      [] ty = "i64" -> IF v.t = "num" THEN Some(v.v) ELSE None
      [] ty = "bool" -> IF v.t = "bool" THEN Some(v.v) ELSE None
      [] ty = "Option<String>" ->
            IF v.t = "null" THEN Some(None)
            ELSE IF v.t = "str" THEN Some(Some(v.v))
            ELSE None

\* The loop of load(): for every field the stored value, or the parsed
\* default, or the error.
LoadMap(rows, T) ==
    [i \in 1..Len(T.fields) |->
        LET g == StoreGet(rows, T.namespace, field_defaults(T)[i].name)
            d == FromJson(field_defaults(T)[i].json)
        IN  IF g.res # "ok" THEN [res |-> g.res, val |-> None]
            ELSE IF IsSome(g.val) THEN [res |-> "ok", val |-> g.val]
            ELSE IF IsSome(d) THEN [res |-> "ok", val |-> d]
            ELSE [res |-> "invalid_setting", val |-> None]]

\* load(store): [res, val], val an Option of the struct, a function from
\* the field names.
SettingsLoad(rows, T) ==
    LET m == LoadMap(rows, T)
        bad == {i \in 1..Len(T.fields) : m[i].res # "ok"}
    IN  IF bad # {}
        THEN [res |-> m[CHOOSE i \in bad : \A j \in bad : i <= j].res, val |-> None]
        ELSE IF \E i \in 1..Len(T.fields) :
                    ~IsSome(FromValue(T.fields[i].ty, Unwrap(m[i].val)))
        THEN [res |-> "serialization", val |-> None]
        ELSE [res |-> "ok",
              val |-> Some([n \in {T.fields[i].name : i \in 1..Len(T.fields)} |->
                              LET i == CHOOSE i \in 1..Len(T.fields) : T.fields[i].name = n
                              IN  Unwrap(FromValue(T.fields[i].ty, Unwrap(m[i].val)))])]

\* save(store): one set per field of the serialized struct.
RECURSIVE SaveFrom(_, _, _, _)
SaveFrom(rows, T, s, i) ==
    IF i > Len(T.fields) THEN rows
    ELSE SaveFrom(StoreSet(rows, T.namespace, T.fields[i].name,
                           ToValue(T.fields[i].ty, s[T.fields[i].name])),
                  T, s, i + 1)

SettingsSave(rows, T, s) == SaveFrom(rows, T, s, 1)

\* get_field(store, field): [res, val].
SettingsGetField(rows, T, field) ==
    LET g == StoreGet(rows, T.namespace, field)
    IN  IF g.res # "ok" THEN [res |-> g.res, val |-> None]
        ELSE IF IsSome(g.val) THEN [res |-> "ok", val |-> g.val]
        ELSE IF ~Declares(T, field) THEN [res |-> "setting_not_found", val |-> None]
        ELSE LET i == CHOOSE i \in 1..Len(T.fields) : field_defaults(T)[i].name = field
                 d == FromJson(field_defaults(T)[i].json)
             IN  IF IsSome(d) THEN [res |-> "ok", val |-> d]
                 ELSE [res |-> "serialization", val |-> None]

\* set_field(store, field, value): [res, rows].
SettingsSetField(rows, T, field, v) ==
    IF ~Declares(T, field) THEN [res |-> "setting_not_found", rows |-> rows]
    ELSE [res |-> "ok", rows |-> StoreSet(rows, T.namespace, field, v)]

\* The types callers declare, and the values they save.
TestSettings ==
    SettingsType("TestSettings", "ns1",
        <<SettingsField("name", "String", Some(LitStr(<<"h">>))),
          SettingsField("count", "i64", Some(LitInt(4)))>>)
OptionalSettings ==
    SettingsType("OptionalSettings", "ns1",
        <<SettingsField("name", "Option<String>", None),
          SettingsField("count", "i64", None)>>)
NoteSettings ==
    SettingsType("NoteSettings", "ns1",
        <<SettingsField("name", "String", Some(LitStr(<<"a", Tab>>)))>>)
SettingsTypes == <<TestSettings, OptionalSettings, NoteSettings>>
FieldNames == Keys \cup {"zzz"}

TypedValues(ty) ==
    CASE ty = "String" -> {<<"h">>, <<Quote, Tab>>}
      [] ty = "i64" -> {4, 7}
      [] ty = "bool" -> BOOLEAN
      [] ty = "Option<String>" -> {None, Some(<<"h">>)}

Instances(T) ==
    IF Len(T.fields) = 1
    THEN {(T.fields[1].name :> a) : a \in TypedValues(T.fields[1].ty)}
    ELSE {(T.fields[1].name :> a) @@ (T.fields[2].name :> b) :
              a \in TypedValues(T.fields[1].ty), b \in TypedValues(T.fields[2].ty)}

TypedRet(op, T, k, res, val) ==
    [op |-> op, ty |-> T.name, ns |-> T.namespace, key |-> k, res |-> res, val |-> val]

LoadSettings(T) ==
    /\ ret' = TypedRet("load", T, "", SettingsLoad(settings, T).res,
                       SettingsLoad(settings, T).val)
    /\ UNCHANGED <<engineVars, cmdVars, raceVars, poolVars, theme, settings, written>>

SaveSettings(T, s) ==
    /\ settings' = SettingsSave(settings, T, s)
    /\ written' = [c \in DOMAIN written |->
                      IF c[1] = T.namespace /\ Declares(T, c[2])
                      THEN LET i == CHOOSE i \in 1..Len(T.fields) : T.fields[i].name = c[2]
                           IN  Some(ToValue(T.fields[i].ty, s[c[2]]))
                      ELSE written[c]]
    /\ ret' = TypedRet("save", T, "", "ok", None)
    /\ UNCHANGED <<engineVars, cmdVars, raceVars, poolVars, theme>>

GetField(T, field) ==
    /\ ret' = TypedRet("get_field", T, field, SettingsGetField(settings, T, field).res,
                       SettingsGetField(settings, T, field).val)
    /\ UNCHANGED <<engineVars, cmdVars, raceVars, poolVars, theme, settings, written>>

SetField(T, field, v) ==
    /\ settings' = SettingsSetField(settings, T, field, v).rows
    /\ written' = IF SettingsSetField(settings, T, field, v).res = "ok"
                  THEN [written EXCEPT ![<<T.namespace, field>>] = Some(v)]
                  ELSE written
    /\ ret' = TypedRet("set_field", T, field, SettingsSetField(settings, T, field, v).res, None)
    /\ UNCHANGED <<engineVars, cmdVars, raceVars, poolVars, theme>>

---------------------------------------------------------------------------
(* ThemeEngine (packages/core/src/theme/engine.rs).  A theme is its name   *)
(* and mode; the engine is the list of themes and the active name.         *)

ThemeDefinition(name, mode) == [name |-> name, mode |-> mode]
ThemeEngine(themes, active) == [themes |-> themes, active |-> active]

\* themes.iter().any(|t| t.name == name)
HasTheme(themes, name) == \E i \in 1..Len(themes) : themes[i].name = name

\* default_themes()
default_themes == <<ThemeDefinition("light", "light"), ThemeDefinition("dark", "dark")>>

\* ThemeEngine::new(themes, default): [res, engine], engine an Option.
ThemeNew(themes, default) ==
    IF ~HasTheme(themes, default) THEN [res |-> "theme_not_found", engine |-> None]
    ELSE [res |-> "ok", engine |-> Some(ThemeEngine(themes, default))]

\* active(): the first theme with the active name, or the panic of expect().
ThemeActive(e) ==
    IF HasTheme(e.themes, e.active)
    THEN [res |-> "ok",
          val |-> Some(e.themes[CHOOSE i \in 1..Len(e.themes) :
                                   /\ e.themes[i].name = e.active
                                   /\ \A j \in 1..(i - 1) : e.themes[j].name # e.active])]
    ELSE [res |-> "panic", val |-> None]

\* Mutant: the name is not looked up before it is made the active one.
ThemeSetActive_Unchecked(e, name) ==
    [res |-> ThemeActive(ThemeEngine(e.themes, name)).res,
     engine |-> ThemeEngine(e.themes, name)]
\* Mutant: Ok is returned for a listed name but self.active is left as it was.
ThemeSetActive_NoSwitch(e, name) ==
    IF ~HasTheme(e.themes, name) THEN [res |-> "theme_not_found", engine |-> e]
    ELSE [res |-> ThemeActive(e).res, engine |-> e]

\* set_active(name): [res, engine].
ThemeSetActive(e, name) ==
    IF ~HasTheme(e.themes, name) THEN [res |-> "theme_not_found", engine |-> e]
    ELSE [res |-> ThemeActive(ThemeEngine(e.themes, name)).res,
          engine |-> ThemeEngine(e.themes, name)]

\* The names, modes and lists of themes callers use.
MaxThemes == 2
ThemeNames == {"light", "dark", "nonexistent"}
ThemeModes == {"light", "dark"}
ThemeLists ==
    UNION {[1..n -> {ThemeDefinition(nm, md) : nm \in ThemeNames, md \in ThemeModes}] :
               n \in 0..MaxThemes}

NewTheme(themes, default) ==
    /\ theme' = IF ThemeNew(themes, default).res = "ok"
                THEN ThemeNew(themes, default).engine ELSE theme
    /\ ret' = Ret("new", "", default, ThemeNew(themes, default).res, None)
    /\ UNCHANGED <<engineVars, cmdVars, raceVars, poolVars, settings, written>>

SetActive(name) ==
    /\ IsSome(theme)
    /\ theme' = Some(ThemeSetActive(Unwrap(theme), name).engine)
    /\ ret' = Ret("set_active", "", name, ThemeSetActive(Unwrap(theme), name).res, None)
    /\ UNCHANGED <<engineVars, cmdVars, raceVars, poolVars, settings, written>>

GetActive ==
    /\ IsSome(theme)
    /\ ret' = Ret("active", "", "", ThemeActive(Unwrap(theme)).res,
                  ThemeActive(Unwrap(theme)).val)
    /\ UNCHANGED <<engineVars, cmdVars, raceVars, poolVars, settings, written, theme>>

---------------------------------------------------------------------------
(* The desktop theme commands (apps/desktop/src-tauri/src/commands/        *)
(* theme.rs) and the restore of the theme at start (main.rs).              *)

\* pc: "idle", "waiting" (in write()), "locked" (holds the write guard),
\* "switched" (set_active has returned Ok).
Setter(pc, name) == [pc |-> pc, name |-> name]
IdleSetter == Setter("idle", "")

\* The characters of a theme name, for serde_json::json!(name).
ThemeChars ==
    [light |-> <<"l", "i", "g", "h", "t">>,
     dark |-> <<"d", "a", "r", "k">>,
     nonexistent |-> <<"n", "o", "n", "e", "x", "i", "s", "t", "e", "n", "t">>]

ThemeNamespace == "shipkit_internal"
ThemeKey == "active_theme"

\* What the store holds as the active theme: an Option of the JSON value.
Persisted(rows) == StoreGet(rows, ThemeNamespace, ThemeKey).val

\* main.rs lines 51-62: the stored name if it is a string, else "dark";
\* the engine on it, or on "dark" if no theme has that name.
RestoreTheme(rows) ==
    LET v == Persisted(rows)
        names == {n \in ThemeNames : IsSome(v) /\ Unwrap(v) = JStr(ThemeChars[n])}
        name == IF names = {} THEN "dark" ELSE CHOOSE n \in names : TRUE
        e == ThemeNew(default_themes, name)
    IN  IF e.res = "ok" THEN Unwrap(e.engine)
        ELSE Unwrap(ThemeNew(default_themes, "dark").engine)

\* Mutant: write() returns at once, whoever holds the guard.
RwLockAvailable_NoLock(holder) == TRUE

\* RwLock::write returns when no guard is alive.
RwLockAvailable(holder) == holder = None

\* The front end invokes set_theme(name) on a thread.
InvokeSetTheme(t, name) ==
    /\ setters[t].pc = "idle"
    /\ setters' = [setters EXCEPT ![t] = Setter("waiting", name)]
    /\ UNCHANGED <<engineVars, cmdVars, poolVars, storeVars, theme, walk, rwlock>>

\* state.theme_engine.write()
WriteLock(t) ==
    /\ setters[t].pc = "waiting"
    /\ RwLockAvailable(rwlock)
    /\ rwlock' = Some(t)
    /\ setters' = [setters EXCEPT ![t].pc = "locked"]
    /\ UNCHANGED <<engineVars, cmdVars, poolVars, storeVars, theme, walk>>

\* engine.set_active(&name): on ThemeNotFound the command returns and the
\* guard is dropped.
Switch(t) ==
    LET r == ThemeSetActive(Unwrap(theme), setters[t].name)
    IN  /\ setters[t].pc = "locked"
        /\ theme' = Some(r.engine)
        /\ IF r.res = "ok"
           THEN /\ setters' = [setters EXCEPT ![t].pc = "switched"]
                /\ UNCHANGED <<rwlock, ret>>
           ELSE /\ setters' = [setters EXCEPT ![t] = IdleSetter]
                /\ rwlock' = None
                /\ ret' = Ret("set_theme", ThemeNamespace, setters[t].name, r.res, None)
        /\ UNCHANGED <<engineVars, cmdVars, poolVars, settings, written, walk>>

\* settings_store.set("shipkit_internal", "active_theme", json!(name)),
\* which succeeds or fails; the command returns and the guard is dropped.
Persist(t, ok) ==
    /\ setters[t].pc = "switched"
    /\ IF ok
       THEN /\ settings' = StoreSet(settings, ThemeNamespace, ThemeKey,
                                    JStr(ThemeChars[setters[t].name]))
            /\ written' = [written EXCEPT ![<<ThemeNamespace, ThemeKey>>] =
                               Some(JStr(ThemeChars[setters[t].name]))]
            /\ ret' = Ret("set_theme", ThemeNamespace, setters[t].name, "ok",
                          ThemeActive(Unwrap(theme)).val)
       ELSE /\ UNCHANGED <<settings, written>>
            /\ ret' = Ret("set_theme", ThemeNamespace, setters[t].name, "database", None)
    /\ rwlock' = None
    /\ setters' = [setters EXCEPT ![t] = IdleSetter]
    /\ UNCHANGED <<engineVars, cmdVars, poolVars, theme, walk>>

RaceVarsInit ==
    /\ walk = [t \in Threads |-> 1]
    /\ rwlock = None
    /\ setters = [t \in Threads |-> IdleSetter]

AppInit ==
    /\ pool = InMemory
    /\ users = [u \in Users |-> IdleUser]
    /\ settings = {}
    /\ written = [c \in Namespaces \X Keys |-> None]
    /\ ret = Ret("new", "", "", "ok", None)
    /\ theme = None
    /\ RaceVarsInit

---------------------------------------------------------------------------

Init ==
    /\ migrations = <<>>
    /\ hasTable = FALSE
    /\ tracking = {}
    /\ schema = {}
    /\ now = 0
    /\ committed = <<>>
    /\ last = Quiet("new")
    /\ mutex = None
    /\ threads = [t \in Threads |-> Idle]
    /\ AppInit

Next ==
    \/ \E m \in Catalog : Register(m)
    \/ \E dir \in Dirs : RegisterFromDir(dir)
    \/ ApplyPending
    \/ RollbackLast
    \/ Status
    \/ NewEngine
    \/ Tick

Spec == Init /\ [][Next]_vars

---------------------------------------------------------------------------
(* The registry alone: register and register_from_dir over directories     *)
(* whose file names and contents exercise the parser.                      *)

LoaderDirs ==
    Dirs \cup
    { { File(<<"2", "_", "x", ".", "s", "q", "l">>, <<Create("u")>>),
        File(<<"1", "0", "_", "y", ".", "s", "q", "l">>, <<Create("w")>>) },
      { File(<<"1", "_", "a", ".", "s", "q", "l">>,
             <<DownMarker, NL, Drop("t")>>) },
      { File(<<"2", "_", "b", ".", "s", "q", "l">>,
             <<Create("u"), NL, DownMarker>>) },
      { File(<<"3", "_", "c", ".", "s", "q", "l">>,
             <<Create("w"), NL, DownMarker, NL>>) },
      { File(<<"-", "1", "_", "x", ".", "s", "q", "l">>, <<Create("t")>>) },
      { File(<<"a", "_", "b", ".", "s", "q", "l">>, <<Create("t")>>) } }

LoaderNext ==
    \/ \E m \in Catalog : Register(m)
    \/ \E dir \in LoaderDirs : RegisterFromDir(dir)
    \/ NewEngine

SpecLoader == Init /\ [][LoaderNext]_vars

---------------------------------------------------------------------------
(* The desktop application: main.rs registers its one migration, puts the  *)
(* engine behind the mutex, and the commands run on the threads.           *)

\* main.rs line 46: version 1, "create_notes" (the name abbreviated).
NotesMigration ==
    Migration(1, Str1("n"), <<CreateIfNotExists("notes")>>,
              Some(<<DropIfExists("notes")>>))

CmdInit ==
    /\ migrations = RegisterInto(<<>>, NotesMigration)
    /\ hasTable = FALSE
    /\ tracking = {}
    /\ schema = {}
    /\ now = 0
    /\ committed = <<>>
    /\ last = Quiet("register")
    /\ mutex = None
    /\ threads = [t \in Threads |-> Idle]
    /\ AppInit

CmdNext ==
    \/ \E t \in Threads, c \in Commands : Invoke(t, c)
    \/ \E t \in Threads : Lock(t)
    \/ \E t \in Threads : CmdRead(t)
    \/ \E t \in Threads : CmdReturn(t)
    \/ Tick

SpecCmd == CmdInit /\ [][CmdNext]_vars

---------------------------------------------------------------------------
(* Engines that are not serialized: every thread has an engine of its own  *)
(* with the same two migrations registered, over one database, and no lock *)
(* is taken.  A call is its read of the tracking table, then the rest.     *)

RaceMigrations ==
    RegisterInto(RegisterInto(<<>>,
        Migration(1, Str1("a"), <<Create("t")>>, Some(<<Drop("t")>>))),
        Migration(2, Str1("b"), <<Create("u")>>, Some(<<Drop("u")>>)))

RaceInit ==
    /\ migrations = RaceMigrations
    /\ hasTable = FALSE
    /\ tracking = {}
    /\ schema = {}
    /\ now = 0
    /\ committed = <<>>
    /\ last = Quiet("register")
    /\ mutex = None
    /\ threads = [t \in Threads |-> Idle]
    /\ AppInit

RaceNext ==
    \/ \E t \in Threads, c \in Commands : Call(t, c)
    \/ \E t \in Threads : CmdRead(t)
    \/ \E t \in Threads : CmdReturn(t)

SpecRace == RaceInit /\ [][RaceNext]_vars

---------------------------------------------------------------------------
(* The pool and its acquirers: an in-memory pool or a file-backed one.     *)
---------------------------------------------------------------------------
(* The settings store, and the derived Settings types, under their         *)
(* callers.                                                                *)

StoreNext ==
    \/ \E ns \in Namespaces, k \in Keys, v \in JsonValues : SetSetting(ns, k, v)
    \/ \E ns \in Namespaces, k \in Keys : DeleteSetting(ns, k)
    \/ \E ns \in Namespaces, k \in Keys : GetSetting(ns, k)
    \/ \E ns \in Namespaces : GetAllSettings(ns)

SpecStore == Init /\ [][StoreNext]_vars

SettingsNext ==
    \/ \E t \in DOMAIN SettingsTypes : LoadSettings(SettingsTypes[t])
    \/ \E t \in DOMAIN SettingsTypes :
           \E s \in Instances(SettingsTypes[t]) : SaveSettings(SettingsTypes[t], s)
    \/ \E t \in DOMAIN SettingsTypes, f \in FieldNames : GetField(SettingsTypes[t], f)
    \/ \E t \in DOMAIN SettingsTypes, f \in FieldNames, v \in JsonValues :
           SetField(SettingsTypes[t], f, v)

SpecSettings == Init /\ [][SettingsNext]_vars
---------------------------------------------------------------------------
(* The theme engine under its callers.                                     *)

ThemeNext ==
    \/ \E ts \in ThemeLists, d \in ThemeNames : NewTheme(ts, d)
    \/ \E n \in ThemeNames : SetActive(n)
    \/ GetActive

SpecTheme == Init /\ [][ThemeNext]_vars

PoolInit ==
    /\ migrations = <<>>
    /\ hasTable = FALSE
    /\ tracking = {}
    /\ schema = {}
    /\ now = 0
    /\ committed = <<>>
    /\ last = Quiet("new")
    /\ mutex = None
    /\ threads = [t \in Threads |-> Idle]
    /\ pool \in {InMemory, NewPool}
    /\ users = [u \in Users |-> IdleUser]
    /\ settings = {}
    /\ written = [c \in Namespaces \X Keys |-> None]
    /\ ret = Ret("new", "", "", "ok", None)
    /\ theme = None
    /\ RaceVarsInit

PoolNext ==
    \/ \E u \in Users, op \in PoolOps : Begin(u, op)
    \/ \E u \in Users : Get(u)
    \/ \E u \in Users : GetTimeout(u)
    \/ \E u \in Users, stmt \in Statements : Exec(u, stmt)
    \/ \E u \in Users : Fail(u)
    \/ \E u \in Users : EndScope(u)
    \/ \E c \in 1..Len(pool.conns) : Reap(c)

SpecPool == PoolInit /\ [][PoolNext]_vars

---------------------------------------------------------------------------
(* Vocabulary of the properties *)

Range(s) == {s[i] : i \in 1..Len(s)}
RegisteredVersions == {migrations[i].version : i \in 1..Len(migrations)}
DistinctVersions ==
    \A i, j \in 1..Len(migrations) :
        migrations[i].version = migrations[j].version => i = j
Ascending(s) == \A i, j \in 1..Len(s) : i < j => s[i] < s[j]
\* One migration per version, in ascending version order.
WellFormedRegistry ==
    Ascending([i \in 1..Len(migrations) |-> migrations[i].version])
StatusVersions(st) == [i \in 1..Len(st) |-> st[i].version]
ExecutedVersions(ex) == [i \in 1..Len(ex) |-> ex[i][1]]
Highest(S, v) == v \in S /\ \A w \in S : w <= v
ReturnedOk(op) == last.op = op /\ last.res = "ok"
ReturnedErr(op, kind) == last.op = op /\ last.res = "err" /\ last.err = kind

---------------------------------------------------------------------------
(* C1: in every reachable state the tracking table holds a record for     *)
(* version V exactly when an apply_pending transaction for V has committed *)
(* and no rollback_last of V has committed since.                          *)
C1_RecordIffCommitted == Versions(tracking) = Range(committed)

\* A version was rolled back while another stays applied.
C1_Witness ==
    /\ ReturnedOk("rollback_last")
    /\ tracking # {}
    /\ Unwrap(last.ver) \notin Versions(tracking)

(* C2: a successful apply_pending on a registry with distinct versions,    *)
(* all of them pending on an empty database, runs the up scripts in        *)
(* ascending version order and returns one entry per registered version,   *)
(* in ascending version order, each with applied = TRUE.                   *)
C2_AppliedInAscendingOrder ==
    ( /\ ReturnedOk("apply_pending")
      /\ DistinctVersions
      /\ Len(last.executed) = Len(migrations)
      /\ Versions(tracking) = RegisteredVersions )
    => /\ Ascending(ExecutedVersions(last.executed))
       /\ Len(last.statuses) = Len(migrations)
       /\ Range(StatusVersions(last.statuses)) = RegisteredVersions
       /\ Ascending(StatusVersions(last.statuses))
       /\ \A i \in 1..Len(last.statuses) : last.statuses[i].applied

(* C3: apply_pending right after a successful apply_pending (time may have *)
(* passed, nothing else was called) succeeds, runs no SQL text, leaves the *)
(* tracking records as they are, applied_at included, and returns the same *)
(* status list.                                                            *)
C3_SecondApplyIsNoOp ==
    [][ (ApplyPending /\ ReturnedOk("apply_pending"))
        => /\ last'.res = "ok"
           /\ last'.executed = <<>>
           /\ tracking' = tracking
           /\ schema' = schema
           /\ last'.statuses = last.statuses ]_vars

\* After the second call, later than the time the records were written.
C3_Witness ==
    /\ ReturnedOk("apply_pending")
    /\ last.executed = <<>>
    /\ Len(migrations) > 1
    /\ \A i \in 1..Len(last.statuses) :
          /\ last.statuses[i].applied
          /\ Unwrap(last.statuses[i].applied_at) < now

(* C4 *)
\* The registered migration at index i and the record of its version
\* disagree on the checksum of up_sql.
Mismatch(i) ==
    /\ migrations[i].version \in Versions(tracking)
    /\ RowOf(tracking, migrations[i].version).checksum # Checksum(migrations[i].up_sql)
FirstMismatch ==
    CHOOSE i \in 1..Len(migrations) :
        Mismatch(i) /\ \A j \in 1..(i - 1) : ~Mismatch(j)
\* The call ran and recorded nothing for a mismatching version and every
\* record that existed before the call is as it was.
MismatchedUntouched ==
    /\ \A i \in 1..Len(migrations) :
          Mismatch(i) => <<migrations[i].version, "up">> \notin Range(last'.executed)
    /\ tracking \subseteq tracking'
    /\ \A r \in tracking' : r.version \in Versions(tracking) => r \in tracking

(* C4 as claimed (for a registry with one migration per version, in        *)
(* ascending order): whenever a registered migration's up_sql differs from *)
(* the one recorded for its applied version, apply_pending returns the     *)
(* checksum-mismatch error, does not run or record that version again and  *)
(* leaves the existing tracking records unchanged.                         *)
C4_MismatchAlwaysReported ==
    [][ (ApplyPending /\ WellFormedRegistry
            /\ \E i \in 1..Len(migrations) : Mismatch(i))
        => /\ last'.res = "err" /\ last'.err = "checksum"
           /\ MismatchedUntouched ]_vars

(* C4 as amended: in that case apply_pending returns an error, does not    *)
(* run or record the mismatching version again and leaves the existing     *)
(* tracking records unchanged; the error is the checksum mismatch of the   *)
(* first mismatching migration of the registry, unless a pending migration *)
(* that comes before it in the registry fails first, and then it is that   *)
(* migration's failure.  The checksum compared is the one of the up_sql    *)
(* registered at the time of the call.                                     *)
C4_MismatchIsAnError ==
    [][ (ApplyPending /\ \E i \in 1..Len(migrations) : Mismatch(i))
        => /\ last'.res = "err"
           /\ \/ /\ last'.err = "checksum"
                 /\ last'.ver = Some(migrations[FirstMismatch].version)
                 /\ last'.name = Some(migrations[FirstMismatch].name)
              \/ /\ last'.err \in {"failed", "database"}
                 /\ \E j \in 1..(FirstMismatch - 1) :
                       /\ migrations[j].version \notin Versions(tracking)
                       /\ last'.ver = Some(migrations[j].version)
                       /\ last'.name = Some(migrations[j].name)
           /\ MismatchedUntouched ]_vars

\* A mismatch was reported for a version whose record is still there.
C4_Witness ==
    /\ ReturnedErr("apply_pending", "checksum")
    /\ Unwrap(last.ver) \in Versions(tracking)
    /\ \E i \in 1..Len(migrations) : Mismatch(i)

(* C5 (for a registry with one migration per version): when a pending      *)
(* migration's up_sql fails to execute, apply_pending returns an error     *)
(* naming its version and name, no tracking record exists for that version *)
(* afterwards, the records that existed are intact, and the call has run   *)
(* no migration with a higher version.                                     *)
C5_FailureStopsTheWalk ==
    [][ (ApplyPending /\ DistinctVersions /\ last'.res = "err" /\ last'.err = "failed")
        => /\ \E i \in 1..Len(migrations) :
                 /\ last'.ver = Some(migrations[i].version)
                 /\ last'.name = Some(migrations[i].name)
                 /\ ~ExecBatch(migrations[i].up_sql, schema').ok
           /\ Unwrap(last'.ver) \notin Versions(tracking')
           /\ tracking \subseteq tracking'
           /\ \A k \in 1..Len(last'.executed) :
                 last'.executed[k][1] <= Unwrap(last'.ver) ]_vars

(* C6: a successful rollback_last removes the tracking record of exactly   *)
(* one version, the numerically highest applied one, runs that version's   *)
(* down script only, and leaves every other record unchanged.              *)
C6_RollsBackHighestOnly ==
    [][ (RollbackLast /\ last'.res = "ok")
        => \E r \in tracking :
              /\ Highest(Versions(tracking), r.version)
              /\ tracking' = tracking \ {r}
              /\ Versions(tracking') = Versions(tracking) \ {r.version}
              /\ last'.ver = Some(r.version)
              /\ last'.executed = << <<r.version, "down">> >> ]_vars

\* Versions 1, 2, 3 were applied, 3 and then 2 were rolled back.
C6_Witness ==
    /\ ReturnedOk("rollback_last")
    /\ last.ver = Some(2)
    /\ RegisteredVersions = {1, 2, 3}
    /\ Versions(tracking) = {1}
    /\ "w" \notin schema

(* C7 (for a registry with one migration per version, in ascending         *)
(* order): the version a successful rollback_last rolls back is the one    *)
(* whose apply committed latest among the versions applied at the time.    *)
C7_RollsBackLatestCommit ==
    [][ (RollbackLast /\ WellFormedRegistry /\ last'.res = "ok")
        => last'.ver = Some(committed[Len(committed)]) ]_vars

(* C8: when the migration registered for the highest applied version (the  *)
(* first one of that version in the registry) has no down_sql,             *)
(* rollback_last returns the "no down SQL" error naming it, runs no SQL    *)
(* and leaves the tracking table and the schema unchanged, so status()     *)
(* still reports the version as applied.                                   *)
C8_NoDownSqlIsAnError ==
    [][ (RollbackLast /\
         \E i \in 1..Len(migrations) :
            /\ Highest(Versions(tracking), migrations[i].version)
            /\ \A j \in 1..(i - 1) : migrations[j].version # migrations[i].version
            /\ migrations[i].down_sql = None)
        => /\ last'.res = "err" /\ last'.err = "nodown"
           /\ last'.executed = <<>>
           /\ tracking' = tracking /\ schema' = schema
           /\ \A i \in 1..Len(migrations') :
                 Highest(Versions(tracking), migrations'[i].version)
                 => StatusOf(migrations', tracking')[i].applied ]_vars

\* The error was returned while a lower applied version could be reversed.
C8_Witness ==
    /\ ReturnedErr("rollback_last", "nodown")
    /\ Highest(Versions(tracking), Unwrap(last.ver))
    /\ \E i \in 1..Len(migrations) :
          /\ migrations[i].version \in Versions(tracking)
          /\ migrations[i].version < Unwrap(last.ver)
          /\ IsSome(migrations[i].down_sql)

(* C9: when no migration is registered for the highest applied version,    *)
(* rollback_last returns an error, runs no SQL and leaves the tracking     *)
(* table and the schema unchanged, whatever lower versions are registered. *)
C9_UnregisteredIsAnError ==
    [][ (RollbackLast /\
         \E v \in Versions(tracking) :
            Highest(Versions(tracking), v) /\ v \notin RegisteredVersions)
        => /\ last'.res = "err" /\ last'.err = "unregistered"
           /\ last'.executed = <<>>
           /\ tracking' = tracking /\ schema' = schema ]_vars

\* The error was returned while a lower applied version is registered with
\* a down script.
C9_Witness ==
    /\ ReturnedErr("rollback_last", "unregistered")
    /\ Highest(Versions(tracking), Unwrap(last.ver))
    /\ \E i \in 1..Len(migrations) :
          /\ migrations[i].version \in Versions(tracking)
          /\ IsSome(migrations[i].down_sql)

(* C10: with no tracking record, rollback_last returns Ok(None), runs no   *)
(* SQL and changes neither the tracking table, the schema nor the          *)
(* registry.                                                               *)
C10_NothingToRollBack ==
    [][ (RollbackLast /\ tracking = {})
        => /\ last'.res = "none"
           /\ last'.executed = <<>>
           /\ tracking' = {} /\ schema' = schema
           /\ migrations' = migrations ]_vars

\* Returned with migrations registered, after one was rolled back.
C10_Witness ==
    /\ last.op = "rollback_last" /\ last.res = "none"
    /\ migrations # <<>>
    /\ tracking = {}
    /\ hasTable

(* C11 *)
\* The registry entries whose version gets its record in this step: the
\* first entry of each version that had no record and has one after.
NewlyRecorded ==
    {i \in 1..Len(migrations) :
        /\ migrations[i].version \in Versions(tracking') \ Versions(tracking)
        /\ \A j \in 1..(i - 1) : migrations[j].version # migrations[i].version}

\* The user tables after the up scripts of the entries in S have run, each
\* to its end, in registry order from index i.
RECURSIVE ReplayUps(_, _, _, _)
ReplayUps(reg, i, S, tables) ==
    IF i > Len(reg) THEN tables
    ELSE IF i \in S
         THEN ReplayUps(reg, i + 1, S, ExecBatch(reg[i].up_sql, tables).schema)
         ELSE ReplayUps(reg, i + 1, S, tables)

RECURSIVE ReplayAllOk(_, _, _, _)
ReplayAllOk(reg, i, S, tables) ==
    IF i > Len(reg) THEN TRUE
    ELSE IF i \in S
         THEN /\ ExecBatch(reg[i].up_sql, tables).ok
              /\ ReplayAllOk(reg, i + 1, S, ExecBatch(reg[i].up_sql, tables).schema)
         ELSE ReplayAllOk(reg, i + 1, S, tables)

---------------------------------------------------------------------------
\* The entries of reg that have version v, in registry order.
OfVersion(reg, v) ==
    LET Has(x) == x.version = v
    IN  SelectSeq(reg, Has)

(* C12, as the specification states it: register inserts or replaces by   *)
(* version.  After register(m) the registry holds exactly one migration of *)
(* m's version, and it is m (the last one registered), so that registering *)
(* the same migration twice is the same as registering it once.            *)
C12_RegisterReplacesByVersion ==
    [][ \A m \in Catalog :
           Register(m) => OfVersion(migrations', m.version) = <<m>> ]_vars

(* C12, amended: register adds.  After register(m) the registry has one    *)
(* entry more; the entries of every version are those it had, in the order *)
(* they were registered, with m after the earlier entries of its version.  *)
(* Nothing is replaced, and registering the same migration twice leaves    *)
(* two entries.                                                            *)
C12_RegisterAppends ==
    [][ \A m \in Catalog :
           Register(m)
           => /\ Len(migrations') = Len(migrations) + 1
              /\ \A v \in RegisteredVersions \cup {m.version} :
                    OfVersion(migrations', v) = OfVersion(migrations, v) \o
                        (IF v = m.version THEN <<m>> ELSE <<>>) ]_vars

\* Two definitions of one version are registered, the earlier one first.
C12_Witness ==
    /\ last.op = "register"
    /\ \E i \in 1..(Len(migrations) - 1) :
          /\ migrations[i].version = migrations[i + 1].version
          /\ migrations[i] # migrations[i + 1]

(* C13: a register_from_dir call that returns an error (a .sql file name   *)
(* without an underscore, or with a version that is not a number) leaves   *)
(* the registry exactly as it was before the call.                         *)
C13_FailedLoadLeavesRegistry ==
    [][ \A dir \in Dirs :
           (RegisterFromDir(dir) /\ last'.res = "err")
           => migrations' = migrations ]_vars

NonDecreasing(s) == \A i, j \in 1..Len(s) : i < j => s[i] <= s[j]
RegistryVersions == [i \in 1..Len(migrations) |-> migrations[i].version]

(* C14: after every register call and every successful register_from_dir  *)
(* call the registry is in ascending order of the numeric version (equal   *)
(* versions next to each other), whatever the order of the calls and of    *)
(* the file names: 10_y.sql sorts before 2_x.sql as a name and loads after *)
(* it as a version.                                                        *)
C14_RegistrySortedByVersion ==
    (last.op = "register" \/ ReturnedOk("register_from_dir"))
    => NonDecreasing(RegistryVersions)

\* The directory of 2_x.sql and 10_y.sql was loaded.
C14_Witness ==
    /\ ReturnedOk("register_from_dir")
    /\ RegistryVersions = <<2, 10>>
    /\ migrations[1].name = Str1("x")
    /\ migrations[2].name = Str1("y")

(* C15 *)
\* The indices of the lines of a text that consist solely of `-- DOWN`:
\* the marker at the start of the text or after a line feed, and at the
\* end of the text or before a line feed.
DownLines(content) ==
    {i \in 1..Len(content) :
        /\ content[i] = DownMarker
        /\ i = 1 \/ content[i - 1] = NL
        /\ i = Len(content) \/ content[i + 1] = NL}
FirstDownLine(content) ==
    CHOOSE i \in DownLines(content) : \A j \in DownLines(content) : i <= j
\* The text before the `-- DOWN` line, without the line feed that ends the
\* line before it, and the text after the line.
UpOfFile(content) ==
    IF DownLines(content) = {} THEN content
    ELSE SubSeq(content, 1, FirstDownLine(content) - 2)
DownOfFile(content) ==
    IF DownLines(content) = {} THEN None
    ELSE Some(SubSeq(content, FirstDownLine(content) + 2, Len(content)))
FileVersion(f) == ParseI64(Unwrap(SplitOnce(Unwrap(StripSuffix(f.name, SqlSuffix)), "_"))[1])
FileStem(f) == Unwrap(SplitOnce(Unwrap(StripSuffix(f.name, SqlSuffix)), "_"))[2]

(* C15: for every file of a directory that register_from_dir loads, the    *)
(* registered migration has as up_sql the text before the line that        *)
(* consists solely of `-- DOWN` and as down_sql the text after it,         *)
(* whether that line is the first, a middle or the last line of the file,  *)
(* with or without a line feed at the end; without such a line up_sql is   *)
(* the whole file and there is no down_sql.  (Stated for a load into an   *)
(* empty registry, where every entry comes from the directory.)            *)
C15_SplitsAtTheDownLine ==
    [][ \A dir \in LoaderDirs :
           (migrations = <<>> /\ RegisterFromDir(dir) /\ last'.res = "ok")
           => \A f \in dir :
                 HasSqlExtension(f.name)
                 => \E i \in 1..Len(migrations') :
                       migrations'[i] =
                           Migration(Unwrap(FileVersion(f)), FileStem(f),
                                     UpOfFile(f.content), DownOfFile(f.content)) ]_vars

(* C16 *)
\* The file name is {version}_{name}.sql with version one or more decimal
\* digits.
WellNamed(fname) ==
    LET stem == StripSuffix(fname, SqlSuffix)
        parts == IF IsSome(stem) THEN SplitOnce(Unwrap(stem), "_") ELSE None
    IN  /\ IsSome(parts)
        /\ Unwrap(parts)[1] # <<>>
        /\ \A i \in 1..Len(Unwrap(parts)[1]) : Unwrap(parts)[1][i] \in Digits

(* C16: register_from_dir on a directory with a .sql file whose name is    *)
(* not {version}_{name}.sql, version a non-negative base-10 integer (no    *)
(* underscore, or a prefix that is not such an integer), returns an error, *)
(* and no migration with a negative version is registered.                 *)
C16_RejectsNonDecimalVersions ==
    [][ \A dir \in LoaderDirs :
           ( /\ RegisterFromDir(dir)
             /\ \E f \in dir : HasSqlExtension(f.name) /\ ~WellNamed(f.name) )
           => /\ last'.res = "err"
              /\ \A i \in 1..Len(migrations') : migrations'[i].version >= 0 ]_vars

(* C17: status() returns exactly one entry per registered migration, in    *)
(* ascending version order; an entry has applied = TRUE exactly when a     *)
(* tracking record exists for its version, applied_at is present exactly   *)
(* when applied is TRUE, and a version that has a record and is not        *)
(* registered has no entry.                                                *)
C17_StatusListsRegistryInOrder ==
    ReturnedOk("status")
    => /\ Len(last.statuses) = Len(migrations)
       /\ \A i \in 1..Len(migrations) :
             Cardinality({k \in 1..Len(last.statuses) :
                             /\ last.statuses[k].version = migrations[i].version
                             /\ last.statuses[k].name = migrations[i].name})
             = Cardinality({k \in 1..Len(migrations) :
                             /\ migrations[k].version = migrations[i].version
                             /\ migrations[k].name = migrations[i].name})
       /\ NonDecreasing(StatusVersions(last.statuses))
       /\ \A k \in 1..Len(last.statuses) :
             /\ last.statuses[k].applied
                   <=> last.statuses[k].version \in Versions(tracking)
             /\ IsSome(last.statuses[k].applied_at) <=> last.statuses[k].applied
             /\ last.statuses[k].version \in RegisteredVersions

(* C18: status() never changes the tracking records, their content, or the *)
(* registry, in any state; on a database without the tracking table it     *)
(* creates the table, empty, and nothing else.                             *)
C18_StatusIsReadOnly ==
    [][ Status
        => /\ tracking' = tracking
           /\ migrations' = migrations
           /\ schema' = schema
           /\ hasTable'
           /\ ~hasTable => tracking' = {} ]_vars

\* status() returned over a table that holds records.
C18_Witness ==
    /\ ReturnedOk("status")
    /\ tracking # {}
    /\ \E k \in 1..Len(last.statuses) : last.statuses[k].applied
    /\ \E k \in 1..Len(last.statuses) : ~last.statuses[k].applied

(* C19 *)
\* rollback_last has just rolled back version last.ver, and every
\* registered migration of another version is applied as registered: the
\* state after a successful apply_pending and a successful rollback_last.
RolledBack == Unwrap(last.ver)
JustRolledBack ==
    /\ ReturnedOk("rollback_last")
    /\ \A i \in 1..Len(migrations) :
          migrations[i].version # RolledBack
          => /\ migrations[i].version \in Versions(tracking)
             /\ RowOf(tracking, migrations[i].version).checksum
                    = Checksum(migrations[i].up_sql)
RolledBackEntry == CHOOSE i \in 1..Len(migrations) : migrations[i].version = RolledBack

(* C19, as the specification states it: after apply_pending and a          *)
(* successful rollback_last of version V, the next apply_pending executes  *)
(* V's up_sql again, records V, and returns every registered migration     *)
(* with applied = TRUE.  (Stated for a registry in ascending order with    *)
(* one migration per version.)                                             *)
C19_RolledBackIsNeverApplied ==
    [][ (ApplyPending /\ JustRolledBack /\ WellFormedRegistry)
        => /\ <<RolledBack, "up">> \in Range(last'.executed)
           /\ RolledBack \in Versions(tracking')
           /\ last'.res = "ok"
           /\ Len(last'.statuses) = Len(migrations)
           /\ \A k \in 1..Len(last'.statuses) : last'.statuses[k].applied ]_vars

(* C19, amended: after a successful rollback_last of version V, registered *)
(* once, with every other registered migration applied, the next           *)
(* apply_pending executes V's up_sql again and nothing else.  If the text  *)
(* executes on the tables as the rollback left them, V is recorded and     *)
(* every registered migration is returned with applied = TRUE; if it does  *)
(* not (the down script did not undo the up script), the call returns V's  *)
(* failure and V stays unapplied.                                          *)
C19_RolledBackIsPendingAgain ==
    [][ ( /\ ApplyPending
          /\ JustRolledBack
          /\ Len(OfVersion(migrations, RolledBack)) = 1 )
        => /\ last'.executed = << <<RolledBack, "up">> >>
           /\ IF ExecBatch(migrations[RolledBackEntry].up_sql, schema).ok
              THEN /\ last'.res = "ok"
                   /\ schema' = ExecBatch(migrations[RolledBackEntry].up_sql, schema).schema
                   /\ Versions(tracking') = Versions(tracking) \cup {RolledBack}
                   /\ Len(last'.statuses) = Len(migrations)
                   /\ \A k \in 1..Len(last'.statuses) : last'.statuses[k].applied
              ELSE /\ last'.res = "err" /\ last'.err = "failed"
                   /\ last'.ver = Some(RolledBack)
                   /\ schema' = schema
                   /\ tracking' = tracking ]_vars

\* Version 3 was applied with the others, rolled back, and applied again
\* later than the others.
C19_Witness ==
    /\ ReturnedOk("apply_pending")
    /\ Len(migrations) > 1
    /\ DistinctVersions
    /\ \E i \in 1..Len(migrations) :
          /\ last.executed = << <<migrations[i].version, "up">> >>
          /\ IsSome(migrations[i].down_sql)
          /\ Highest(Versions(tracking), migrations[i].version)
          /\ \A r \in tracking :
                r.version # migrations[i].version
                => r.applied_at < RowOf(tracking, migrations[i].version).applied_at

(* C20: in the desktop command layer each of migration_status,             *)
(* apply_migrations and rollback_migration holds the engine's mutex for    *)
(* the whole engine call.  Under every interleaving of the commands at     *)
(* most one engine call is in progress, the thread in it is the holder of  *)
(* the mutex, and what a call has read of the tracking table is the table  *)
(* as the last completed call left it: no other call has changed it since. *)
InCall(t) == threads[t].pc \in {"locked", "read"}
C20_OneEngineCallAtATime ==
    /\ Cardinality({t \in Threads : InCall(t)}) <= 1
    /\ \A t \in Threads :
          /\ InCall(t) => mutex = Some(t)
          /\ threads[t].pc = "read" => threads[t].snap = tracking

\* A call is in progress over an applied migration while another command
\* waits for the lock.
C20_Witness ==
    \E t, u \in Threads :
        /\ t # u
        /\ threads[t].pc = "read"
        /\ threads[t].snap # {}
        /\ threads[u].pc = "waiting"

---------------------------------------------------------------------------
(* C21: every connection that an operation (apply_pending, rollback_last,  *)
(* status, a settings store operation) acquires is back in the pool when   *)
(* the operation returns, on every exit path: in every state the           *)
(* checked-out connections are exactly those held by the operations that   *)
(* are inside a scope, one each, so an operation that has returned (with   *)
(* Ok or with an error) has left the count as it found it.                 *)
C21_ConnectionsReturnedOnEveryPath ==
    /\ \A c \in CheckedOut(pool) :
          /\ pool.conns[c].holder \in Users
          /\ users[pool.conns[c].holder].pc = "holding"
          /\ users[pool.conns[c].holder].conn = c
    /\ Cardinality(CheckedOut(pool))
          = Cardinality({u \in Users : users[u].pc = "holding"})

\* An operation returned from an error while another holds a connection:
\* one connection is checked out, by the other.
C21_Witness ==
    \E u, w \in Users :
        /\ users[u].pc = "idle"
        /\ users[w].pc = "holding"
        /\ users[w].op = "apply_pending"
        /\ users[w].left < Scopes["apply_pending"]
        /\ Cardinality(CheckedOut(pool)) = 1
        /\ pool.kind = "file"

(* C22: a pool created by in_memory() never has more than one physical     *)
(* connection, and every acquirer sees the same schema and data: a table   *)
(* created through one acquisition is there for every later acquisition.   *)
C22_InMemoryStateIsShared ==
    pool.kind = "memory"
    => /\ Len(pool.conns) <= 1
       /\ \A c \in 1..Len(pool.conns) : TablesOf(pool, c) = pool.created

(* C23, as the specification states it: every connection has foreign-key   *)
(* enforcement on at the moment get() hands it out, on every acquisition   *)
(* and for every pool size, also when a previous holder reconfigured the   *)
(* connection before returning it.                                         *)
C23_ForeignKeysOnAtEveryAcquisition ==
    [][ \A u \in Users :
           Get(u) => pool'.conns[users'[u].conn].fk ]_vars

(* C23, amended: the pragmas are set once, when the pool opens a physical  *)
(* connection.  In every state a connection has foreign-key enforcement on *)
(* unless a holder has turned it off since the connection was opened; the  *)
(* pool does not set it again when it hands the connection out.            *)
C23_ForeignKeysOnWhenOpened ==
    \A c \in 1..Len(pool.conns) :
        pool.conns[c].fk \/ pool.conns[c].reconfigured

\* A connection that a holder reconfigured is checked out, foreign keys
\* off, in a file-backed pool that also has an untouched connection.
C23_Witness ==
    \E u \in Users :
        /\ users[u].pc = "holding"
        /\ pool.kind = "file"
        /\ ~pool.conns[users[u].conn].fk
        /\ pool.conns[users[u].conn].reconfigured
        /\ users[u].op = "status" /\ users[u].left = 1
        /\ \E c \in IdleConns(pool) : pool.conns[c].fk

---------------------------------------------------------------------------
\* C24: after any sequence of set and delete calls, get(namespace, key)
\* returns the value of the most recent set for that (namespace, key) if no
\* delete of it followed, and None otherwise; get_all(namespace) returns
\* exactly the keys of that namespace for which get returns a value, with
\* those values.  `written` is the history of the calls; the two conjuncts on
\* `ret` say the same of the get and get_all calls that were made.
LastWritten(ns) ==
    [k \in {k \in Keys : IsSome(written[<<ns, k>>])} |-> Unwrap(written[<<ns, k>>])]

C24_GetReturnsLastSet ==
    /\ \A ns \in Namespaces, k \in Keys :
           StoreGet(settings, ns, k) = [res |-> "ok", val |-> written[<<ns, k>>]]
    /\ \A ns \in Namespaces :
           StoreGetAll(settings, ns) = [res |-> "ok", val |-> LastWritten(ns)]
    /\ ret.op = "get" => ret.res = "ok" /\ ret.val = written[<<ret.ns, ret.key>>]
    /\ ret.op = "get_all" => ret.res = "ok" /\ ret.val = LastWritten(ret.ns)

\* A get_all that returned one key, holding a string with a quote and a
\* control character, after the namespace's other key was deleted or never set.
C24_Witness ==
    /\ ret.op = "get_all"
    /\ DOMAIN ret.val = {"name"}
    /\ ret.val["name"] = JStr(<<Quote, Tab>>)

---------------------------------------------------------------------------
\* C25: set and delete on (ns1, key) leave the results of get and get_all
\* for every other namespace, and of get for every other key of ns1,
\* unchanged, even when the same key name is used in both namespaces.
C25_NamespacesAreIsolated ==
    [][ ret'.op \in {"set", "delete"} =>
          /\ \A ns \in Namespaces \ {ret'.ns} :
                 StoreGetAll(settings', ns) = StoreGetAll(settings, ns)
          /\ \A ns \in Namespaces, k \in Keys :
                 (ns # ret'.ns \/ k # ret'.key) =>
                     StoreGet(settings', ns, k) = StoreGet(settings, ns, k) ]_vars

\* A delete of a key of one namespace while the other namespace holds a
\* value under the same key name.
C25_Witness ==
    /\ ret.op = "delete"
    /\ \E ns2 \in Namespaces \ {ret.ns} : IsSome(written[<<ns2, ret.key>>])

---------------------------------------------------------------------------
\* C26: in every state reachable through ThemeEngine::new and set_active the
\* active theme name is the name of a theme in the engine's list, so
\* active() never panics; set_active with a name not in the list returns
\* ThemeNotFound and leaves the active theme unchanged.
ActiveIsListed ==
    /\ IsSome(theme) => HasTheme(Unwrap(theme).themes, Unwrap(theme).active)
    /\ ret.op \in {"active", "set_active"} => ret.res # "panic"

C26_ActiveThemeIsListed ==
    /\ []ActiveIsListed
    /\ [][ \A n \in ThemeNames :
             (SetActive(n) /\ ~HasTheme(Unwrap(theme).themes, n)) =>
                 /\ ret'.res = "theme_not_found"
                 /\ theme' = theme ]_vars

\* A set_active with an unknown name was refused by an engine that had
\* switched away from the theme it was built with.
C26_Witness ==
    /\ IsSome(theme)
    /\ ret.op = "set_active"
    /\ ret.res = "theme_not_found"
    /\ Unwrap(theme).themes = default_themes
    /\ Unwrap(theme).active = "dark"

---------------------------------------------------------------------------
\* C27: for a derived Settings type, load returns for each declared field
\* the stored value when one exists and the declared default otherwise; after
\* save(s), load returns s.  A field saved earlier keeps its saved value until
\* it is overwritten: `written` is the value of the last save or set_field.
\*
\* The value a field's declaration gives it when nothing is stored: the
\* literal of its default attribute, or the empty value of its type.
DeclaredDefault(f) ==
    IF IsSome(f.default)
    THEN (IF is_option_type(f.ty) THEN Some(Unwrap(f.default).v) ELSE Unwrap(f.default).v)
    ELSE CASE f.ty = "String" -> <<>>
           [] f.ty = "i64" -> 0
           [] f.ty = "bool" -> FALSE
           [] OTHER -> None

\* The JSON value load has to find for a field: the stored one or the default.
Expected(T, f) ==
    IF IsSome(written[<<T.namespace, f.name>>])
    THEN Unwrap(written[<<T.namespace, f.name>>])
    ELSE ToValue(f.ty, DeclaredDefault(f))

\* The step is the call of op on the type T with the field name k.
Called(op, T, k) == ret'.op = op /\ ret'.ty = T.name /\ ret'.key = k

C27_LoadReturnsStoredOrDefault ==
    [][ \A t \in DOMAIN SettingsTypes :
          LET T == SettingsTypes[t]
          IN  /\ (Called("load", T, "") /\ LoadSettings(T)) =>
                    /\ ret'.res = "ok"
                    /\ \A i \in 1..Len(T.fields) :
                           ToValue(T.fields[i].ty, Unwrap(ret'.val)[T.fields[i].name])
                               = Expected(T, T.fields[i])
              /\ \A s \in Instances(T) :
                     (Called("save", T, "") /\ SaveSettings(T, s)) =>
                         SettingsLoad(settings', T) = [res |-> "ok", val |-> Some(s)] ]_vars

---------------------------------------------------------------------------
\* C28: set_field with a name that is not a declared field returns
\* SettingNotFound and writes nothing to the store; get_field with a name
\* that is neither stored nor declared returns SettingNotFound; get_field of
\* a declared but unstored field returns its default.
Stored(T, field) == RowsAt(settings, T.namespace, field) # {}

C28_FieldErrorsAndDefaults ==
    [][ \A t \in DOMAIN SettingsTypes, n \in FieldNames :
          LET T == SettingsTypes[t]
          IN  /\ (/\ Called("set_field", T, n)
                  /\ \E v \in JsonValues : SetField(T, n, v)
                  /\ ~Declares(T, n)) =>
                     /\ ret'.res = "setting_not_found"
                     /\ settings' = settings
              /\ (Called("get_field", T, n) /\ GetField(T, n) /\ ~Stored(T, n) /\ ~Declares(T, n)) =>
                     ret'.res = "setting_not_found"
              /\ (Called("get_field", T, n) /\ GetField(T, n) /\ ~Stored(T, n) /\ Declares(T, n)) =>
                     /\ ret'.res = "ok"
                     /\ \A i \in 1..Len(T.fields) :
                            T.fields[i].name = n =>
                                ret'.val = Some(ToValue(T.fields[i].ty,
                                                        DeclaredDefault(T.fields[i]))) ]_vars

---------------------------------------------------------------------------
\* C29: when apply_pending and rollback_last run unserialized against the
\* same tracking table, an interleaving is reachable in which rollback_last
\* reads the highest applied version, apply_pending then commits a higher
\* version, and rollback_last removes the lower one: the version rolled back
\* was not the highest applied when the rollback committed.  The state is
\* C29_Witness; the formula says how it comes about: a rollback removes the
\* highest version of what it read, and a higher version in the table when it
\* commits is one that was committed after that read.
RolledBackBy(t) ==
    /\ threads[t].pc = "read"
    /\ threads[t].cmd = "rollback_migration"
    /\ CmdReturn(t)
    /\ last'.res = "ok"

C29_RollbackRemovesHighestRead ==
    [][ \A t \in Threads :
          RolledBackBy(t) =>
              /\ Unwrap(last'.ver) \in Versions(threads[t].snap)
              /\ \A v \in Versions(threads[t].snap) : v <= Unwrap(last'.ver)
              /\ Unwrap(last'.ver) \notin Versions(tracking')
              /\ \A r \in tracking' :
                     r.version > Unwrap(last'.ver) => r \notin threads[t].snap ]_vars

\* A rollback has just committed the removal of a version while a higher
\* version is applied.
C29_Witness ==
    /\ last.op = "rollback_last"
    /\ last.res = "ok"
    /\ \E r \in tracking : r.version > Unwrap(last.ver)

---------------------------------------------------------------------------
\* C30: when the tracking table holds records of versions that are not in
\* the registry, apply_pending still applies every pending registered
\* migration and never modifies or deletes the records of the unregistered
\* versions.  The call goes through the registry as it does without such
\* records: it ends with every registered version recorded, or at a
\* registered migration whose checksum differs or whose script or record
\* fails, with every migration before that one recorded.
Unregistered(rows) == {r \in rows : r.version \notin RegisteredVersions}

C30_UnregisteredRecordsUntouched ==
    [][ (ApplyPending /\ Unregistered(EnsureTrackingTable(hasTable, tracking)) # {}) =>
          /\ Unregistered(tracking') = Unregistered(tracking)
          /\ last'.res = "ok" =>
                 /\ RegisteredVersions \subseteq Versions(tracking')
                 /\ \A v \in RegisteredVersions \ Versions(tracking) :
                        \E j \in 1..Len(last'.executed) : last'.executed[j] = <<v, "up">>
          /\ last'.res = "err" =>
                 /\ last'.err \in {"checksum", "failed", "database"}
                 /\ \E k \in 1..Len(migrations) :
                        /\ migrations[k].version = Unwrap(last'.ver)
                        /\ \A i \in 1..(k - 1) :
                               migrations[i].version \in Versions(tracking') ]_vars

\* An apply_pending that ran a pending migration while the table held the
\* record of a version the registry does not have.
C30_Witness ==
    /\ last.op = "apply_pending"
    /\ last.res = "ok"
    /\ last.executed # <<>>
    /\ Unregistered(tracking) # {}

---------------------------------------------------------------------------
\* C31: apply_pending is atomic per migration, not per call: when it aborts
\* at version k (checksum mismatch or SQL failure), every pending registered
\* migration with a version below k has already been committed by that call
\* and stays applied, so a failed call can leave the tracking table different
\* from what it was before the call.
AbortedAt(k) ==
    /\ ApplyPending
    /\ last'.res = "err"
    /\ last'.ver = Some(k)

C31_EarlierVersionsStayCommitted ==
    [][ \A k \in RegisteredVersions :
          AbortedAt(k) =>
              \A i \in 1..Len(migrations) :
                  (/\ migrations[i].version < k
                   /\ migrations[i].version \notin
                          Versions(EnsureTrackingTable(hasTable, tracking))) =>
                      /\ migrations[i].version \in Versions(tracking')
                      /\ \E j \in 1..Len(last'.executed) :
                             last'.executed[j] = <<migrations[i].version, "up">> ]_vars

\* The same on the registries that are in ascending order of version.
C31_EarlierVersionsStayCommittedSorted ==
    [][ \A k \in RegisteredVersions :
          (AbortedAt(k) /\ NonDecreasing(RegistryVersions)) =>
              \A i \in 1..Len(migrations) :
                  (/\ migrations[i].version < k
                   /\ migrations[i].version \notin
                          Versions(EnsureTrackingTable(hasTable, tracking))) =>
                      /\ migrations[i].version \in Versions(tracking')
                      /\ \E j \in 1..Len(last'.executed) :
                             last'.executed[j] = <<migrations[i].version, "up">> ]_vars

\* A call that failed after it had committed a migration: the table is not
\* what it was before the call.
C31_Witness ==
    /\ last.op = "apply_pending"
    /\ last.res = "err"
    /\ NonDecreasing(RegistryVersions)
    /\ \E j \in 1..Len(last.executed) :
           /\ last.executed[j][1] < Unwrap(last.ver)
           /\ last.executed[j][1] \in Versions(tracking)

---------------------------------------------------------------------------
\* C32: apply_pending does not require a pending migration's version to be
\* above the highest applied version: a migration registered with a version
\* lower than already-applied versions is applied by the next apply_pending
\* (one that succeeds runs it and records it; one that fails fails for a
\* checksum, a script or a record, never for the order), so the order in
\* which versions were committed need not be ascending.
BelowApplied(i, rows) ==
    /\ migrations[i].version \notin Versions(rows)
    /\ \E r \in rows : r.version > migrations[i].version

C32_LowerVersionsAreApplied ==
    [][ \A i \in 1..Len(migrations) :
          (/\ last'.op = "apply_pending"
           /\ BelowApplied(i, EnsureTrackingTable(hasTable, tracking))
           /\ ApplyPending) =>
              /\ last'.res = "ok" =>
                     /\ migrations[i].version \in Versions(tracking')
                     /\ \E j \in 1..Len(last'.executed) :
                            last'.executed[j] = <<migrations[i].version, "up">>
              /\ last'.res = "err" =>
                     last'.err \in {"checksum", "failed", "database"} ]_vars

\* An apply_pending has just committed a version below one committed by an
\* earlier call: the history of commits is not ascending.
C32_Witness ==
    /\ last.op = "apply_pending"
    /\ last.res = "ok"
    /\ \E j \in 1..Len(last.executed) :
           \E i \in 1..Len(committed) :
               /\ committed[Len(committed)] = last.executed[j][1]
               /\ i < Len(committed)
               /\ committed[i] > committed[Len(committed)]
               /\ \A k \in 1..Len(last.executed) :
                      last.executed[k][1] # committed[i]

---------------------------------------------------------------------------
\* C33: if two migrations with the same version are registered and that
\* version is not yet applied, one apply_pending call commits the first of
\* them and then, because the applied set is read once before the loop, runs
\* the second one's up_sql in a transaction, fails on the duplicate tracking
\* insert and discards that transaction: the call returns an error and
\* exactly one tracking record exists for the version, holding the first
\* definition's checksum.
\*
\* The registry holds the version v at i and again later, i being its first
\* place, v is not applied, and the call commits the migration at i.
CommitsFirstOfTwo(i, rows) ==
    /\ \A h \in 1..(i - 1) : migrations[h].version # migrations[i].version
    /\ \E j \in (i + 1)..Len(migrations) : migrations[j].version = migrations[i].version
    /\ migrations[i].version \notin Versions(rows)
    /\ ApplyPending
    /\ migrations[i].version \in Versions(tracking')

OneRecordOfFirst(i, rows) ==
    /\ last'.res = "err"
    /\ \A r \in rows : r.version = migrations[i].version =>
                           r.checksum = Checksum(migrations[i].up_sql)
    /\ Cardinality({r \in rows : r.version = migrations[i].version}) = 1
    /\ Cardinality({k \in 1..Len(committed') :
                        committed'[k] = migrations[i].version}) = 1

\* The call ran the up_sql of the version a second time and ended there.
RanSecond(i) ==
    /\ last'.ver = Some(migrations[i].version)
    /\ Cardinality({k \in 1..Len(last'.executed) :
                        last'.executed[k] = <<migrations[i].version, "up">>}) = 2

\* As stated: the second fails on the tracking insert.
C33_SecondFailsOnTheInsert ==
    [][ \A i \in 1..Len(migrations) :
          CommitsFirstOfTwo(i, EnsureTrackingTable(hasTable, tracking)) =>
              /\ OneRecordOfFirst(i, tracking')
              /\ RanSecond(i)
              /\ last'.err = "database" ]_vars

\* Amended: the call returns an error with one record of the version,
\* that of the first definition; unless it was stopped at another version
\* before, it has run the second definition, which failed in its own
\* script or on the tracking insert.
C33_SecondFailsAndIsDiscarded ==
    [][ \A i \in 1..Len(migrations) :
          CommitsFirstOfTwo(i, EnsureTrackingTable(hasTable, tracking)) =>
              /\ OneRecordOfFirst(i, tracking')
              /\ last'.ver = Some(migrations[i].version) =>
                    /\ RanSecond(i)
                    /\ last'.err \in {"failed", "database"} ]_vars

\* A call ran both migrations of a version and failed on the insert of the
\* second record.
C33_Witness ==
    /\ last.op = "apply_pending"
    /\ last.res = "err"
    /\ last.err = "database"
    /\ \E i, j \in 1..Len(last.executed) :
           /\ i < j
           /\ last.executed[i] = <<Unwrap(last.ver), "up">>
           /\ last.executed[j] = <<Unwrap(last.ver), "up">>
    /\ Unwrap(last.ver) \in Versions(tracking)

---------------------------------------------------------------------------
(* apply_pending of engines that are not serialized, one registry entry at *)
(* a time: each pending migration runs in a transaction of its own, and    *)
(* between two of them another engine's transaction may commit.            *)

\* Lines 113-149, one turn of the loop of the call on thread t, with the
\* applied map the call read at its start.  busy: another call is inside
\* its walk and the database is locked against this transaction, so
\* execute_batch fails.  After the last entry the call returns status().
ApplyStep(t, busy) ==
    LET i == walk[t]
        applied == GetApplied(threads[t].snap)
        leave(o) == /\ last' = o
                    /\ threads' = [threads EXCEPT ![t] = Idle]
                    /\ walk' = [walk EXCEPT ![t] = 1]
        err(kind) == Outcome("apply_pending", "err", kind,
                             Some(migrations[i].version),
                             Some(migrations[i].name), <<>>,
                             <<<<migrations[i].version, "up">>>>)
    IN  /\ threads[t].pc = "read"
        /\ threads[t].cmd = "apply_migrations"
        /\ IF i > Len(migrations)
           THEN /\ ~busy
                /\ leave(Outcome("apply_pending", "ok", "", None, None,
                                 StatusOf(migrations, tracking), <<>>))
                /\ UNCHANGED <<schema, tracking, committed>>
           ELSE IF migrations[i].version \in DOMAIN applied
           THEN /\ ~busy
                /\ IF ChecksumMatches(applied[migrations[i].version], migrations[i])
                   THEN /\ walk' = [walk EXCEPT ![t] = i + 1]
                        /\ UNCHANGED <<last, threads>>
                   ELSE leave([err("checksum") EXCEPT !.executed = <<>>])
                /\ UNCHANGED <<schema, tracking, committed>>
           ELSE IF busy
           THEN /\ \E o \in Threads \ {t} : threads[o].pc = "read"
                /\ leave(err("failed"))
                /\ UNCHANGED <<schema, tracking, committed>>
           ELSE LET r == ApplyOne(migrations[i],
                                  [schema |-> schema, rows |-> tracking], now)
                IN  /\ schema' = r.schema
                    /\ tracking' = r.rows
                    /\ IF r.end = "committed"
                       THEN /\ committed' = Append(committed, migrations[i].version)
                            /\ walk' = [walk EXCEPT ![t] = i + 1]
                            /\ UNCHANGED <<last, threads>>
                       ELSE /\ leave(err(r.end))
                            /\ UNCHANGED committed
        /\ UNCHANGED <<migrations, hasTable, now, mutex>>
        /\ UNCHANGED <<poolVars, storeVars, theme, rwlock, setters>>

\* Two registries: in the first a second run of a script fails in the
\* script, in the second it succeeds and the INSERT of the record fails.
ApplyRaceRegistries ==
    {RaceMigrations,
     RegisterInto(RegisterInto(<<>>, NotesMigration),
         Migration(2, Str1("b"), <<CreateIfNotExists("u")>>,
                   Some(<<DropIfExists("u")>>)))}

ApplyRaceInit ==
    /\ migrations \in ApplyRaceRegistries
    /\ hasTable = FALSE
    /\ tracking = {}
    /\ schema = {}
    /\ now = 0
    /\ committed = <<>>
    /\ last = Quiet("register")
    /\ mutex = None
    /\ threads = [t \in Threads |-> Idle]
    /\ AppInit

ApplyRaceNext ==
    \/ \E t \in Threads : Call(t, "apply_migrations")
    \/ \E t \in Threads : CmdRead(t)
    \/ \E t \in Threads, busy \in BOOLEAN : ApplyStep(t, busy)
    \/ Tick

SpecApplyRace == ApplyRaceInit /\ [][ApplyRaceNext]_vars

\* How often v occurs in the sequence s.
Count(s, v) == Cardinality({k \in 1..Len(s) : s[k] = v})

OneRecordOneCommit ==
    \A v \in RegisteredVersions :
        /\ Cardinality({r \in tracking : r.version = v}) <= 1
        /\ Count(committed, v) <= 1

\* Thread t takes a turn of its walk on a version that was not applied
\* when its call read the table and that another call has applied since.
LosesRace(t) ==
    /\ threads[t].pc = "read"
    /\ walk[t] <= Len(migrations)
    /\ migrations[walk[t]].version \notin Versions(threads[t].snap)
    /\ migrations[walk[t]].version \in Versions(tracking)
    /\ <<threads[t], walk[t]>> # <<threads'[t], walk'[t]>>

\* C34: when engines over one database run apply_pending with nothing
\* serializing them, no version ever has more than one tracking record or
\* is committed more than once, and the call that comes second on a
\* version returns an error for that version with its transaction
\* discarded: the schema and the tracking table are as before.
C34_RaceLoserFailsAndIsDiscarded ==
    /\ []OneRecordOneCommit
    /\ [][\A t \in Threads : LosesRace(t) =>
            /\ last'.res = "err"
            /\ last'.err \in {"failed", "database"}
            /\ last'.ver = Some(migrations[walk[t]].version)
            /\ threads'[t] = Idle
            /\ UNCHANGED <<schema, tracking, committed>>]_vars

\* A call has just failed on the INSERT of a version that the other call
\* committed after this call had read the table.
C34_Witness ==
    /\ last.op = "apply_pending"
    /\ last.err = "database"
    /\ IsSome(last.ver)
    /\ Count(committed, Unwrap(last.ver)) = 1
    /\ \E t \in Threads : threads[t].pc = "read" /\ walk[t] > 1

EngineOps == {"status", "rollback_last", "apply_pending"}

\* The connections checked out to user u.
HeldBy(u) == {c \in 1..Len(pool.conns) : pool.conns[c].holder = u}

\* An engine operation holds one connection inside a scope and none
\* between two scopes.
HoldsAtMostOne ==
    \A u \in Users : users[u].op \in EngineOps =>
        /\ Cardinality(HeldBy(u)) <= 1
        /\ users[u].pc = "running" => HeldBy(u) = {}

\* The get() of user u times out in this step.
TimesOut(u) == users[u].pc = "running" /\ users'[u] = IdleUser

\* C35: apply_pending, rollback_last and status hold at most one pooled
\* connection at any time and none when they ask for the next one, so a
\* get() of theirs only times out when every connection is held by other
\* callers: with nobody else holding one the operation is never stopped by
\* its own connection, also on the pool of one connection.
C35_NeverWaitsOnItself ==
    /\ []HoldsAtMostOne
    /\ [][\A u \in Users : (users[u].op \in EngineOps /\ TimesOut(u)) =>
            \A c \in 1..Len(pool.conns) : pool.conns[c].holder \notin {0, u}]_vars

\* On the in-memory pool of one connection an apply_pending is inside its
\* last scope, all the earlier ones behind it, while nobody else is active.
C35_Witness ==
    /\ pool.kind = "memory"
    /\ Len(pool.conns) = 1
    /\ \E u \in Users :
          /\ users[u] = User("holding", "apply_pending", 1, 1)
          /\ \A o \in Users \ {u} : users[o] = IdleUser

---------------------------------------------------------------------------
(* An engine whose registry is rebuilt with other definitions of a version *)
(* than the one the database was migrated with.                            *)

\* Definitions of version 1 that share the up script and differ in name,
\* in reverse script or in both, one with another up script, and a
\* version 2.
RedefCatalog ==
    { Migration(1, Str1("a"), <<Create("t")>>, Some(<<Drop("t")>>)),
      Migration(1, Str1("b"), <<Create("t")>>, Some(<<Drop("t")>>)),
      Migration(1, Str1("a"), <<Create("t")>>, None),
      Migration(1, Str1("b"), <<Create("t")>>, Some(<<Drop("u")>>)),
      Migration(1, Str1("a"), <<CreateIfNotExists("t")>>, Some(<<Drop("t")>>)),
      Migration(2, Str1("c"), <<Create("u")>>, Some(<<Drop("u")>>)) }

RedefNext ==
    \/ \E m \in RedefCatalog : Register(m)
    \/ ApplyPending
    \/ RollbackLast
    \/ NewEngine
    \/ Tick

SpecRedef == Init /\ [][RedefNext]_vars

\* The registry with the name and the reverse script of every applied
\* version replaced.
Relabel(reg, n, d) ==
    [i \in 1..Len(reg) |->
        IF reg[i].version \in Versions(tracking)
        THEN [reg[i] EXCEPT !.name = n, !.down_sql = d]
        ELSE reg[i]]

\* What apply_pending does in this state with the registry reg.
ApplyRun(reg) ==
    LET table == EnsureTrackingTable(hasTable, tracking)
    IN  ApplyLoop(reg, 1, GetApplied(table),
                  [schema |-> schema, rows |-> table,
                   executed |-> <<>>, commits |-> <<>>], now)

RelabelNames == {m.name : m \in RedefCatalog} \cup {Str1("z")}
RelabelDowns == {m.down_sql : m \in RedefCatalog}

\* Every registered version is applied and recorded with the checksum of
\* the up script now registered for it.
AllAppliedSameUp ==
    \A i \in 1..Len(migrations) :
        /\ hasTable
        /\ migrations[i].version \in Versions(tracking)
        /\ RowOf(tracking, migrations[i].version).checksum
              = Checksum(migrations[i].up_sql)

\* The first registered definition of the highest applied version.
CurrentOfLast ==
    LET lv == SetMax(Versions(tracking))
        hits == {i \in 1..Len(migrations) : migrations[i].version = lv}
    IN  migrations[CHOOSE i \in hits : \A j \in hits : i <= j]

\* C36: only up_sql enters the verification.  An apply_pending call ends
\* as it would with any other name and any other down_sql registered for
\* the applied versions (same schema, same records, same success or same
\* error on the same version), and succeeds when every registered version
\* is applied with the checksum of its registered up_sql; a rollback_last
\* that executes a script executes the down_sql registered now for the
\* highest applied version.
C36_ChecksumCoversOnlyUpSql ==
    /\ [][ApplyPending =>
            /\ \A n \in RelabelNames, d \in RelabelDowns :
                  LET run == ApplyRun(Relabel(migrations, n, d))
                  IN  /\ schema' = run.acc.schema
                      /\ tracking' = run.acc.rows
                      /\ (last'.res = "ok") = (run.end = "done")
                      /\ run.end # "done" =>
                            /\ last'.err = run.end
                            /\ last'.ver = Some(migrations[run.at].version)
            /\ AllAppliedSameUp => last'.res = "ok"]_vars
    /\ [][(RollbackLast /\ last'.executed # <<>>) =>
            LET m == CurrentOfLast
                r == ExecBatch(Unwrap(m.down_sql), schema)
            IN  /\ last'.executed = << <<m.version, "down">> >>
                /\ IF r.ok
                   THEN /\ last'.res = "ok"
                        /\ schema' = r.schema
                        /\ tracking' = DeleteRow(tracking, m.version)
                   ELSE /\ last'.err = "database"
                        /\ UNCHANGED <<schema, tracking>>]_vars

\* Version 1 was applied under the name "a", whose definitions have the
\* reverse script DROP TABLE t or none; the registry now holds only the
\* definition named "b" with DROP TABLE u, apply_pending has accepted it,
\* and rollback_last has run that script, which failed on the missing u.
C36_Witness ==
    /\ last.op = "rollback_last"
    /\ last.err = "database"
    /\ last.executed = << <<1, "down">> >>
    /\ migrations = <<Migration(1, Str1("b"), <<Create("t")>>, Some(<<Drop("u")>>))>>
    /\ tracking = {Row(1, Str1("a"), Checksum(<<Create("t")>>), 0)}
    /\ schema = {"t"}

\* apply_pending has just succeeded with a registry whose only definition
\* of the applied version 1 has another name and no down_sql.
C36_WitnessApply ==
    /\ last.op = "apply_pending"
    /\ last.res = "ok"
    /\ migrations = <<Migration(1, Str1("a"), <<Create("t")>>, None)>>
    /\ \E r \in tracking : r.version = 1 /\ r.name = Str1("b")

---------------------------------------------------------------------------
(* The desktop application running set_theme on its threads.               *)

\* What the settings database may hold as active_theme when the
\* application starts: nothing, a theme name, or a value that is no string.
StartSettings ==
    {{}} \cup {StoreSet({}, ThemeNamespace, ThemeKey, v) :
                 v \in {JStr(ThemeChars[n]) : n \in ThemeNames} \cup {JNum(1)}}

ThemeCmdInit ==
    /\ migrations = <<>>
    /\ hasTable = FALSE
    /\ tracking = {}
    /\ schema = {}
    /\ now = 0
    /\ committed = <<>>
    /\ last = Quiet("new")
    /\ mutex = None
    /\ threads = [t \in Threads |-> Idle]
    /\ pool = InMemory
    /\ users = [u \in Users |-> IdleUser]
    /\ settings \in StartSettings
    /\ written = [c \in {<<ThemeNamespace, ThemeKey>>} |-> None]
    /\ ret = Ret("new", "", "", "ok", None)
    /\ theme = Some(RestoreTheme(settings))
    /\ RaceVarsInit

ThemeCmdNext ==
    \/ \E t \in Threads, name \in ThemeNames : InvokeSetTheme(t, name)
    \/ \E t \in Threads : WriteLock(t)
    \/ \E t \in Threads : Switch(t)
    \/ \E t \in Threads, ok \in BOOLEAN : Persist(t, ok)

SpecThemeCmd == ThemeCmdInit /\ [][ThemeCmdNext]_vars

\* The same application with a settings database whose writes succeed.
ThemeCmdOkNext ==
    \/ \E t \in Threads, name \in ThemeNames : InvokeSetTheme(t, name)
    \/ \E t \in Threads : WriteLock(t)
    \/ \E t \in Threads : Switch(t)
    \/ \E t \in Threads : Persist(t, TRUE)

SpecThemeCmdOk == ThemeCmdInit /\ [][ThemeCmdOkNext]_vars

\* The name of the active theme in memory.
ActiveName == Unwrap(theme).active

\* The settings write of the set_theme call on thread t fails in this step.
WriteFails(t) ==
    /\ setters[t].pc = "switched"
    /\ setters'[t] = IdleSetter
    /\ ret'.res = "database"

\* C37: set_theme switches the theme in memory before it writes the
\* selection and does not switch back: a call that has switched has not
\* yet written, and when its write fails the command returns the error
\* with the new theme active in memory and the stored active_theme as it
\* was before the call.
C37_SwitchedBeforePersistedAndKept ==
    /\ [](\A t \in Threads : setters[t].pc = "switched" =>
             ActiveName = setters[t].name)
    /\ [][\A t \in Threads :
            /\ (setters[t].pc = "locked" /\ setters'[t] # setters[t]) =>
                  UNCHANGED <<settings, written>>
            /\ WriteFails(t) =>
                  /\ ret'.op = "set_theme"
                  /\ ret'.key = setters[t].name
                  /\ Unwrap(theme').active = setters[t].name
                  /\ Persisted(settings') = Persisted(settings)]_vars

\* A set_theme has stored one theme, a later one has failed in its write:
\* every call has returned, the theme in memory is the one of the failed
\* call and the stored one is the other.
C37_Witness ==
    /\ ret.op = "set_theme"
    /\ ret.res = "database"
    /\ \A t \in Threads : setters[t] = IdleSetter
    /\ ActiveName = ret.key
    /\ IsSome(written[<<ThemeNamespace, ThemeKey>>])
    /\ Persisted(settings) = written[<<ThemeNamespace, ThemeKey>>]
    /\ Persisted(settings) # Some(JStr(ThemeChars[ActiveName]))

\* No set_theme call is between taking the write lock and returning.
AllReturned == \A t \in Threads : setters[t].pc \in {"idle", "waiting"}

\* C38: the write lock covers the switch and the write, so with settings
\* writes that succeed, whenever no set_theme call is in progress and one
\* has written, the stored active_theme is the name of the theme active
\* in memory, whatever the interleaving of the calls.
C38_PersistedEqualsInMemory ==
    (AllReturned /\ IsSome(written[<<ThemeNamespace, ThemeKey>>])) =>
        Persisted(settings) = Some(JStr(ThemeChars[ActiveName]))

\* set_theme calls have run, the last to return chose "light" and its
\* write succeeded; every call has returned, and the store and the memory
\* agree on "light".
C38_Witness ==
    /\ \A t \in Threads : setters[t] = IdleSetter
    /\ ret.op = "set_theme"
    /\ ret.res = "ok"
    /\ ret.key = "light"
    /\ ActiveName = "light"
    /\ written[<<ThemeNamespace, ThemeKey>>] = Some(JStr(ThemeChars["light"]))
    /\ Persisted(settings) = Some(JStr(ThemeChars["light"]))
=============================================================================
